---- MODULE Spec2Model ----
(***************************************************************************)
(* Query-time tools of the US-law MCP server (search_legislation,          *)
(* build_legal_stance, get_provision, validate_citation) over the SQLite   *)
(* store built by the ingest scripts.                                      *)
(*                                                                         *)
(* Text values (queries, citations, section numbers, short names) are      *)
(* sequences of one-character strings, so that trimming, tokenizing, LIKE  *)
(* patterns, escaping and prefix tests are computed character by           *)
(* character, as the code and SQLite compute them.  Jurisdiction codes are *)
(* compared only as wholes and stay atomic strings; the empty string       *)
(* stands for an omitted (undefined) jurisdiction, which the code treats   *)
(* the same way (both are falsy).  An optional number is a sequence of     *)
(* length 0 or 1.                                                          *)
(***************************************************************************)
EXTENDS Integers, Sequences, FiniteSets, TLC

VARIABLES
  db,        \* the store: legal_documents, legal_provisions, state_requirements
             \* (for the fetch scripts their cache directory, for the HTTP
             \* server its sessions map and transports)
  call,      \* the tool call or script run being answered (name and arguments)
  response,  \* what the dispatcher or the script hands back for that call
  issued     \* the statements the handler ran against the store, in order
             \* (for the fetch scripts their downloads and delays)

vars == <<db, call, response, issued>>

----------------------------------------------------------------------------
(* Bounds of the model *)

MaxQueryLen == 3      \* longest search query, in characters
MaxRows == 2          \* most provisions in the store of the search tools

----------------------------------------------------------------------------
(* Characters and strings *)

Min(a, b) == IF a <= b THEN a ELSE b
Max(a, b) == IF a >= b THEN a ELSE b

Range(s) == {s[i] : i \in 1..Len(s)}

\* All sequences over S of length 1..n
SeqsUpTo(S, n) == UNION {[1..k -> S] : k \in 1..n}

\* F applied to the value of v, which is computed once
With(v, F(_)) == CHOOSE r \in {F(x) : x \in {v}} : TRUE

Take(s, n) == SubSeq(s, 1, Min(n, Len(s)))
Drop(s, n) == SubSeq(s, n + 1, Len(s))

UpperLetters ==
  <<"A","B","C","D","E","F","G","H","I","J","K","L","M",
    "N","O","P","Q","R","S","T","U","V","W","X","Y","Z">>
LowerLetters ==
  <<"a","b","c","d","e","f","g","h","i","j","k","l","m",
    "n","o","p","q","r","s","t","u","v","w","x","y","z">>
Digits == {"0","1","2","3","4","5","6","7","8","9"}
Letters == Range(UpperLetters) \cup Range(LowerLetters)
WhiteSpace == {" "}

\* ASCII case folding, as SQLite's NOCASE / LIKE and LOWER() apply it
LowerOf == [c \in Range(UpperLetters) |->
              LowerLetters[CHOOSE i \in 1..26 : UpperLetters[i] = c]]
ToLower(c) == IF c \in DOMAIN LowerOf THEN LowerOf[c] ELSE c
LowerStr(s) == [i \in 1..Len(s) |-> ToLower(s[i])]

\* String.prototype.trim
RECURSIVE TrimStart(_)
TrimStart(s) ==
  IF s # <<>> /\ Head(s) \in WhiteSpace THEN TrimStart(Tail(s)) ELSE s
RECURSIVE TrimEnd(_)
TrimEnd(s) ==
  IF s # <<>> /\ s[Len(s)] \in WhiteSpace
    THEN TrimEnd(SubSeq(s, 1, Len(s) - 1)) ELSE s
Trim(s) == TrimEnd(TrimStart(s))

IsPrefix(p, s) == Len(p) <= Len(s) /\ SubSeq(s, 1, Len(p)) = p
Contains(s, sub) ==
  \E i \in 0..(Len(s) - Len(sub)) : SubSeq(s, i + 1, i + Len(sub)) = sub

----------------------------------------------------------------------------
(* Request validation (utils/validate) *)

\* The keys of the JURISDICTIONS table that occur in the model
JURISDICTIONS == {"US-FED", "US-CA", "US-NY"}

\* TRUE when validateJurisdiction throws ValidationError
validateJurisdictionThrows(jurisdiction, required) ==
  IF jurisdiction = "" THEN required
  ELSE jurisdiction \notin JURISDICTIONS

\* TRUE when validateNonEmptyString throws ValidationError
validateNonEmptyStringThrows(value) == Len(Trim(value)) = 0

ValidationError == [kind |-> "validation_error"]

----------------------------------------------------------------------------
(* The store *)

\* legal_documents row: [jurisdiction, title, identifier, short_name];
\* legal_provisions row: [document_id, jurisdiction, section_number, text,
\* order_index]; state_requirements row: [jurisdiction, summary_text].
\* A row's id is its position in the table.  Columns that the tools only
\* copy into their answers (status, dates, provision title) are left out.
DocIds(d) == 1..Len(d.legal_documents)
ProvIds(d) == 1..Len(d.legal_provisions)
ReqIds(d) == 1..Len(d.state_requirements)

\* FROM legal_provisions AS p JOIN legal_documents AS d ON p.document_id = d.id
Joined(d) == {p \in ProvIds(d) : d.legal_provisions[p].document_id \in DocIds(d)}
DocOf(d, p) == d.legal_documents[d.legal_provisions[p].document_id]

\* The ids of S as a sequence, ascending by key, ties by id
RECURSIVE SortByKey(_, _)
SortByKey(S, key) ==
  IF S = {} THEN <<>>
  ELSE LET m == CHOOSE x \in S : \A y \in S :
                  key[x] < key[y] \/ (key[x] = key[y] /\ x <= y)
       IN <<m>> \o SortByKey(S \ {m}, key)

----------------------------------------------------------------------------
(* SQLite LIKE *)

NoEscape == "no-escape"

\* text LIKE pattern [ESCAPE esc]: '%' matches any run of characters, '_'
\* any one character, the escape character makes the next pattern character
\* literal (a pattern that ends in a lone escape matches nothing), and
\* letters compare without regard to ASCII case.
RECURSIVE Like(_, _, _)
Like(text, pattern, esc) ==
  IF pattern = <<>> THEN text = <<>>
  ELSE LET c == Head(pattern) IN
    IF c = esc THEN
      /\ Len(pattern) >= 2
      /\ text # <<>>
      /\ ToLower(pattern[2]) = ToLower(Head(text))
      /\ Like(Tail(text), Drop(pattern, 2), esc)
    ELSE IF c = "%" THEN
      \E k \in 0..Len(text) : Like(Drop(text, k), Tail(pattern), esc)
    ELSE IF c = "_" THEN
      text # <<>> /\ Like(Tail(text), Tail(pattern), esc)
    ELSE
      /\ text # <<>>
      /\ ToLower(c) = ToLower(Head(text))
      /\ Like(Tail(text), Tail(pattern), esc)

\* value.replace(/[%_]/g, '\\$&')
RECURSIVE EscapeWildcards(_)
EscapeWildcards(s) ==
  IF s = <<>> THEN <<>>
  ELSE IF Head(s) \in {"%", "_"}
    THEN <<"\\", Head(s)>> \o EscapeWildcards(Tail(s))
    ELSE <<Head(s)>> \o EscapeWildcards(Tail(s))

----------------------------------------------------------------------------
(* Query variants (utils/fts-query) *)

\* The maximal runs of characters of `chars` in s, in order
RECURSIVE TokenRuns(_, _, _)
TokenRuns(s, chars, cur) ==
  IF s = <<>> THEN (IF cur = <<>> THEN <<>> ELSE <<cur>>)
  ELSE IF Head(s) \in chars THEN TokenRuns(Tail(s), chars, Append(cur, Head(s)))
  ELSE (IF cur = <<>> THEN <<>> ELSE <<cur>>) \o TokenRuns(Tail(s), chars, <<>>)

FtsTokenChars == Letters \cup Digits

\* primary: all tokens must occur (AND); fallback: any token (OR); neither is
\* defined when the query has no token.
buildFtsQueryVariants(query) ==
  LET tokens == TokenRuns(query, FtsTokenChars, <<>>) IN
  IF tokens = <<>> THEN [primary |-> <<>>, fallback |-> <<>>]
  ELSE [primary  |-> <<[op |-> "AND", tokens |-> tokens]>>,
        fallback |-> <<[op |-> "OR", tokens |-> tokens]>>]

----------------------------------------------------------------------------
(* The full-text index (provisions_fts, tokenizer unicode61) *)

\* The index terms of a provision: the case-folded tokens of its columns
RowTerms(p) ==
  Range(TokenRuns(LowerStr(p.section_number), FtsTokenChars, <<>>))
    \cup Range(TokenRuns(LowerStr(p.text), FtsTokenChars, <<>>))

QueryTerms(q) == {LowerStr(q.tokens[i]) : i \in 1..Len(q.tokens)}

\* provisions_fts MATCH ?
FtsMatch(q, p) ==
  IF q.op = "AND" THEN QueryTerms(q) \subseteq RowTerms(p)
  ELSE QueryTerms(q) \cap RowTerms(p) # {}

\* ORDER BY bm25(provisions_fts): rows matching more of the query's terms
\* rank first (lower bm25), ties in rowid order
Bm25Key(d, q) ==
  [p \in ProvIds(d) |->
     0 - Cardinality(QueryTerms(q) \cap RowTerms(d.legal_provisions[p]))]

\* What the handler hands to MATCH for a variant; an undefined variant is
\* bound as a query with no terms.
Bound(variant) ==
  IF variant = <<>> THEN [op |-> "AND", tokens |-> <<>>] ELSE variant[1]

\* runFtsSearch, and the statute query of buildLegalStance: `scope` is the
\* set of jurisdictions the WHERE clause admits
FtsSelect(d, q, scope, limit) ==
  Take(SortByKey({p \in Joined(d) :
                    /\ FtsMatch(q, d.legal_provisions[p])
                    /\ d.legal_provisions[p].jurisdiction \in scope},
                 Bm25Key(d, q)),
       limit)

AllJurisdictions(d) ==
  {d.legal_provisions[p].jurisdiction : p \in ProvIds(d)}
    \cup {d.state_requirements[r].jurisdiction : r \in ReqIds(d)}

runFtsSearch(d, ftsQuery, jurisdiction, limit) ==
  FtsSelect(d, ftsQuery,
            IF jurisdiction # "" THEN {jurisdiction} ELSE AllJurisdictions(d),
            limit)

----------------------------------------------------------------------------
(* search_legislation *)

MAX_LIMIT == 50
DEFAULT_LIMIT == 10

clampLimit(limit) ==
  IF limit = <<>> THEN DEFAULT_LIMIT ELSE Max(1, Min(limit[1], MAX_LIMIT))

\* The guard left out: the primary variant is bound whatever it is
searchShortCircuits_Missing(variants) == FALSE

\* if (!variants.primary) return { results: [] }
searchShortCircuits(variants) == variants.primary = <<>>

\* The fallback tried whenever it is defined, whatever the primary returned
searchFallsBack_Always(results, variants) == variants.fallback # <<>>

\* if (results.length === 0 && variants.fallback)
searchFallsBack(results, variants) ==
  Len(results) = 0 /\ variants.fallback # <<>>

FtsIssued(kind, q, rows) == [stmt |-> kind, query |-> q, rows |-> rows]

\* The answer of searchLegislation and the index queries it issues
searchLegislation(d, input) ==
  IF validateNonEmptyStringThrows(input.query)
       \/ validateJurisdictionThrows(input.jurisdiction, FALSE)
  THEN [response |-> ValidationError, issued |-> <<>>]
  ELSE
    LET query == Trim(input.query)
        limit == clampLimit(input.limit)
        variants == buildFtsQueryVariants(query)
        first == runFtsSearch(d, Bound(variants.primary), input.jurisdiction, limit)
        second == runFtsSearch(d, Bound(variants.fallback), input.jurisdiction, limit)
    IN
    IF searchShortCircuits(variants)
    THEN [response |-> [kind |-> "ok", results |-> <<>>], issued |-> <<>>]
    ELSE IF searchFallsBack(first, variants)
    THEN [response |-> [kind |-> "ok", results |-> second],
          issued |-> <<FtsIssued("primary", Bound(variants.primary), first),
                       FtsIssued("fallback", Bound(variants.fallback), second)>>]
    ELSE [response |-> [kind |-> "ok", results |-> first],
          issued |-> <<FtsIssued("primary", Bound(variants.primary), first)>>]

----------------------------------------------------------------------------
(* build_legal_stance *)

STANCE_MAX_LIMIT == 20
STANCE_DEFAULT_LIMIT == 5

stanceClampLimit(limit) ==
  IF limit = <<>> THEN STANCE_DEFAULT_LIMIT
  ELSE Max(1, Min(limit[1], STANCE_MAX_LIMIT))

\* if (!variants.primary) return the empty stance
stanceShortCircuits(variants) == variants.primary = <<>>

\* if (statuteMatches.length === 0 && variants.fallback)
stanceFallsBack(statuteMatches, variants) ==
  Len(statuteMatches) = 0 /\ variants.fallback # <<>>

\* jurisdictions && jurisdictions.length > 0 && jurisdictions[0] !== 'all'
stanceFilters(jurisdictions) ==
  Len(jurisdictions) > 0 /\ jurisdictions[1] # "all"

stanceScope(d, jurisdictions) ==
  IF stanceFilters(jurisdictions) THEN Range(jurisdictions)
  ELSE AllJurisdictions(d)

\* Binary collation of the jurisdiction codes of the model
JurisdictionOrder == <<"US-CA", "US-FED", "US-NY">>
JurisdictionRank(j) == CHOOSE i \in 1..Len(JurisdictionOrder) : JurisdictionOrder[i] = j

StanceTokenChars == Letters \cup Digits \cup {"_"}

\* The requirement query: summary_text LIKE '%token%' for some token (the
\* statement has no ESCAPE clause), the jurisdiction filter, ORDER BY
\* sr.jurisdiction (ties in rowid order) LIMIT limit * 2
stanceRequirements(d, query, jurisdictions, limit) ==
  LET tokens == TokenRuns(query, StanceTokenChars, <<>>)
      hit(r) == \E i \in 1..Len(tokens) :
                  Like(d.state_requirements[r].summary_text,
                       <<"%">> \o EscapeWildcards(tokens[i]) \o <<"%">>, NoEscape)
      rows == {r \in ReqIds(d) :
                 /\ tokens # <<>> => hit(r)
                 /\ d.state_requirements[r].jurisdiction
                      \in stanceScope(d, jurisdictions)}
  IN IF tokens = <<>> /\ ~stanceFilters(jurisdictions) THEN <<>>
     ELSE Take(SortByKey(rows, [r \in ReqIds(d) |->
                  JurisdictionRank(d.state_requirements[r].jurisdiction)]),
               limit * 2)

EmptyStance ==
  [kind |-> "ok", results |-> <<>>, requirement_matches |-> <<>>,
   jurisdictions_covered |-> {}, total_results |-> 0]

Stance(d, statutes, requirements) ==
  [kind |-> "ok", results |-> statutes, requirement_matches |-> requirements,
   jurisdictions_covered |->
     {d.legal_provisions[statutes[i]].jurisdiction : i \in 1..Len(statutes)}
       \cup {d.state_requirements[requirements[i]].jurisdiction :
               i \in 1..Len(requirements)},
   total_results |-> Len(statutes) + Len(requirements)]

\* The answer of buildLegalStance (statute_matches is the `results` field)
\* and the index queries it issues
buildLegalStance(d, input) ==
  IF validateNonEmptyStringThrows(input.query)
       \/ \E i \in 1..Len(input.jurisdictions) :
            validateJurisdictionThrows(input.jurisdictions[i], TRUE)
  THEN [response |-> ValidationError, issued |-> <<>>]
  ELSE
    LET query == Trim(input.query)
        limit == stanceClampLimit(input.limit)
        variants == buildFtsQueryVariants(query)
        scope == stanceScope(d, input.jurisdictions)
        first == FtsSelect(d, Bound(variants.primary), scope, limit)
        second == FtsSelect(d, Bound(variants.fallback), scope, limit)
        reqs == stanceRequirements(d, query, input.jurisdictions, limit)
    IN
    IF stanceShortCircuits(variants)
    THEN [response |-> EmptyStance, issued |-> <<>>]
    ELSE IF stanceFallsBack(first, variants)
    THEN [response |-> Stance(d, second, reqs),
          issued |-> <<FtsIssued("primary", Bound(variants.primary), first),
                       FtsIssued("fallback", Bound(variants.fallback), second)>>]
    ELSE [response |-> Stance(d, first, reqs),
          issued |-> <<FtsIssued("primary", Bound(variants.primary), first)>>]

----------------------------------------------------------------------------
(* The search tools over a small indexed store *)

\* One call is answered at a time: the handlers run to completion on the
\* single JavaScript thread (every store access is synchronous).
NoCall == [tool |-> "none"]
NoResponse == [kind |-> "none"]

QueryChars == {"a", "b", " ", "-"}
Queries == SeqsUpTo(QueryChars, MaxQueryLen)

SearchJurisdictions == {"US-CA", "US-NY"}
SearchTexts == {<<"a">>, <<"a", " ", "b">>}
SearchDocuments ==
  <<[jurisdiction |-> "US-CA", title |-> <<"T">>, identifier |-> <<"1">>,
     short_name |-> <<"c">>],
    [jurisdiction |-> "US-NY", title |-> <<"T">>, identifier |-> <<"2">>,
     short_name |-> <<"n">>]>>
SearchProvisions ==
  {[document_id |-> i, jurisdiction |-> SearchDocuments[i].jurisdiction,
    section_number |-> <<"1">>, text |-> t, order_index |-> 0] :
      i \in 1..2, t \in SearchTexts}
SearchRequirements ==
  <<[jurisdiction |-> "US-NY", summary_text |-> <<"a", "b">>],
    [jurisdiction |-> "US-CA", summary_text |-> <<"B">>]>>

InitSearch ==
  /\ db \in [legal_documents : {SearchDocuments},
             legal_provisions : UNION {[1..n -> SearchProvisions] : n \in 0..MaxRows},
             state_requirements : {SearchRequirements}]
  /\ call = NoCall
  /\ response = NoResponse
  /\ issued = <<>>

SearchLegislation ==
  \E query \in Queries, jurisdiction \in {"", "US-CA", "US-ZZ"},
     limit \in {<<>>, <<1>>} :
    LET input == [tool |-> "search_legislation", query |-> query,
                  jurisdiction |-> jurisdiction, limit |-> limit]
        out == searchLegislation(db, input)
    IN /\ call = NoCall
       /\ call' = input
       /\ response' = out.response
       /\ issued' = out.issued
       /\ UNCHANGED db

BuildLegalStance ==
  \E query \in Queries,
     jurisdictions \in {<<>>, <<"US-NY">>, <<"US-CA", "US-NY">>, <<"all">>},
     limit \in {<<>>, <<1>>} :
    LET input == [tool |-> "build_legal_stance", query |-> query,
                  jurisdictions |-> jurisdictions, limit |-> limit]
        out == buildLegalStance(db, input)
    IN /\ call = NoCall
       /\ call' = input
       /\ response' = out.response
       /\ issued' = out.issued
       /\ UNCHANGED db

\* The dispatcher hands the answer to the transport and is ready for the
\* next call; the store is as it was.
Respond ==
  /\ call # NoCall
  /\ call' = NoCall
  /\ response' = NoResponse
  /\ issued' = <<>>
  /\ UNCHANGED db

NextSearch == SearchLegislation \/ BuildLegalStance \/ Respond

SpecSearch == InitSearch /\ [][NextSearch]_vars

----------------------------------------------------------------------------
(* get_provision *)

\* value.replace(/[\\%_]/g, '\\$&')
RECURSIVE escapeLike(_)
escapeLike(value) ==
  IF value = <<>> THEN <<>>
  ELSE IF Head(value) \in {"\\", "%", "_"}
    THEN <<"\\", Head(value)>> \o escapeLike(Tail(value))
    ELSE <<Head(value)>> \o escapeLike(Tail(value))

SHORT_NAME_SUBSTRING_MIN == 4

\* The short name filter without the prefix, reverse prefix and substring tests
buildShortNameFilter_EqualOnly(shortName, doc) ==
  LowerStr(doc.short_name) = LowerStr(shortName)

\* The WHERE clause of buildShortNameFilter, for the document row doc
buildShortNameFilter(shortName, doc) ==
  LET escaped == escapeLike(Trim(shortName)) IN
  \/ LowerStr(doc.short_name) = LowerStr(shortName)
  \/ Like(doc.short_name, escaped \o <<"%">>, "\\")
  \/ Like(LowerStr(shortName), LowerStr(doc.short_name) \o <<"%">>, NoEscape)
  \/ /\ Len(shortName) >= SHORT_NAME_SUBSTRING_MIN
     /\ Like(doc.short_name, <<"%">> \o escaped \o <<"%">>, "\\")

\* The WHERE clause of buildDocumentFilter, for the document row doc
buildDocumentFilter(input, doc) ==
  IF input.law_identifier # <<>> THEN doc.identifier = input.law_identifier
  ELSE IF input.short_name # <<>> THEN buildShortNameFilter(input.short_name, doc)
  ELSE TRUE

\* WHERE d.jurisdiction = ? ${docFilter.clause}
InScope(d, input, p) ==
  /\ p \in Joined(d)
  /\ DocOf(d, p).jurisdiction = input.jurisdiction
  /\ buildDocumentFilter(input, DocOf(d, p))

\* AND p.section_number = ?
exactRows(d, input) ==
  {p \in ProvIds(d) :
     /\ InScope(d, input, p)
     /\ d.legal_provisions[p].section_number = input.section_number}

\* AND (? LIKE p.section_number || '%' ESCAPE '\'
\*      OR p.section_number LIKE ? || '%' ESCAPE '\')
\* with the request bound to the first parameter and the request with its
\* '%' and '_' escaped bound to the second
fallbackMatch(section_number, stored) ==
  \/ Like(section_number, stored \o <<"%">>, "\\")
  \/ Like(stored, EscapeWildcards(section_number) \o <<"%">>, "\\")

fallbackRows(d, input) ==
  {p \in ProvIds(d) :
     /\ InScope(d, input, p)
     /\ fallbackMatch(input.section_number, d.legal_provisions[p].section_number)}

\* The statement without section_number
allRows(d, input) == {p \in ProvIds(d) : InScope(d, input, p)}

\* The rows in insertion order: the statement without its ORDER BY
orderByRowid(d, rows) == {SortByKey(rows, [p \in ProvIds(d) |-> 0])}

\* ORDER BY p.order_index: every arrangement of the rows that ascends by
\* order_index (SQL leaves the order of rows with equal keys open)
RECURSIVE orderByOrderIndex(_, _)
orderByOrderIndex(d, rows) ==
  IF rows = {} THEN {<<>>}
  ELSE LET first == {p \in rows :
                      \A q \in rows : d.legal_provisions[p].order_index
                                        <= d.legal_provisions[q].order_index}
       IN UNION {{<<p>> \o rest : rest \in orderByOrderIndex(d, rows \ {p})} :
                   p \in first}

\* The hierarchical statement run whatever the exact statement returned
provisionFallsBack_Always(results) == TRUE

\* if (results.length === 0)
provisionFallsBack(results) == Len(results) = 0

\* The characters of the model in the order of their codes (BINARY collation)
AsciiOrder ==
  <<" ", "%", "(", ")", "-", ".">>
    \o <<"0", "1", "2", "3", "4", "5", "6", "7", "8", "9">>
    \o UpperLetters \o <<"\\", "_">> \o LowerLetters
CharCode(c) == CHOOSE i \in 1..Len(AsciiOrder) : AsciiOrder[i] = c

\* a <= b as SQLite compares TEXT values
RECURSIVE StrLeq(_, _)
StrLeq(a, b) ==
  IF a = <<>> THEN TRUE
  ELSE IF b = <<>> THEN FALSE
  ELSE IF Head(a) = Head(b) THEN StrLeq(Tail(a), Tail(b))
  ELSE CharCode(Head(a)) < CharCode(Head(b))

\* The documents S ascending by short_name (equal names in rowid order)
RECURSIVE OrderByShortName(_, _)
OrderByShortName(d, S) ==
  IF S = {} THEN <<>>
  ELSE LET first == CHOOSE i \in S : \A j \in S :
             LET a == d.legal_documents[i].short_name
                 b == d.legal_documents[j].short_name
             IN IF a = b THEN i <= j ELSE StrLeq(a, b)
       IN <<first>> \o OrderByShortName(d, S \ {first})

HINT_LIMIT == 8

\* The laws listed whatever their jurisdiction: the statement without WHERE
hintRows_AnyJurisdiction(d, jurisdiction) ==
  Take(OrderByShortName(d, DocIds(d)), HINT_LIMIT)

\* SELECT short_name, identifier FROM legal_documents WHERE jurisdiction = ?
\* ORDER BY short_name LIMIT 8
hintRows(d, jurisdiction) ==
  Take(OrderByShortName(d, {i \in DocIds(d) :
                              d.legal_documents[i].jurisdiction = jurisdiction}),
       HINT_LIMIT)

\* buildNoResultHints: the line that repeats the criteria, the line
\* "Available laws in ..." (present when `available` is not empty; it names
\* the short name and identifier of each listed document that has one of
\* them), and the advice on section_number
buildNoResultHints(d, input) ==
  LET named(i) == \/ d.legal_documents[i].short_name # <<>>
                  \/ d.legal_documents[i].identifier # <<>>
  IN [criteria |-> <<input.law_identifier, input.short_name, input.section_number>>,
      available |-> SelectSeq(hintRows(d, input.jurisdiction), named),
      advice |-> IF input.section_number # <<>> THEN "try_prefix" ELSE "add_section"]

ProvisionResponse(d, input, results) ==
  IF Len(results) = 0
  THEN [kind |-> "ok", results |-> results, hints |-> <<buildNoResultHints(d, input)>>]
  ELSE [kind |-> "ok", results |-> results, hints |-> <<>>]

Statement(kind, rows) == [stmt |-> kind, rows |-> rows]

\* The possible answers of getProvision, each with the statements it ran
getProvision(d, input) ==
  IF input.law_identifier = <<>> /\ input.short_name = <<>>
  THEN {[response |-> [kind |-> "ok", results |-> <<>>,
                       hints |-> <<"Provide either law_identifier or short_name.">>],
         issued |-> <<>>]}
  ELSE IF input.section_number # <<>>
  THEN UNION {
         IF provisionFallsBack(exact)
         THEN {[response |-> ProvisionResponse(d, input, fb),
                issued |-> <<Statement("exact", exact), Statement("fallback", fb)>>] :
                  fb \in orderByOrderIndex(d, fallbackRows(d, input))}
         ELSE {[response |-> ProvisionResponse(d, input, exact),
                issued |-> <<Statement("exact", exact)>>]} :
           exact \in orderByOrderIndex(d, exactRows(d, input))}
  ELSE {[response |-> ProvisionResponse(d, input, all),
         issued |-> <<Statement("all", all)>>] :
           all \in orderByOrderIndex(d, allRows(d, input))}

----------------------------------------------------------------------------
(* get_provision over a small store of sections and subsections *)

MaxProvisions == 2    \* most provisions in the store of get_provision

\* "1" stands for a section, "1a" and "1A" for subsections of it that differ
\* in case only, "1_" for a section number with an underscore (the section
\* patterns of the parsers admit \w), "2" for an unrelated section.
SectionList ==
  <<<<"1">>, <<"1", "a">>, <<"1", "A">>, <<"1", "_">>, <<"2">>>>
SectionNumbers == Range(SectionList)
SectionRank(s) == CHOOSE i \in 1..Len(SectionList) : SectionList[i] = s
OrderIndexes == {0, 1}

\* getProvision never reads a rowid and SQL leaves the order of rows with
\* equal sort keys open, so stores that differ only in the order of insertion
\* answer alike; one order of insertion stands for each (by section, then
\* document, then ordinal position descending).
RowLeq(a, b) ==
  LET sa == SectionRank(a.section_number)
      sb == SectionRank(b.section_number)
  IN \/ sa < sb
     \/ /\ sa = sb
        /\ \/ a.document_id < b.document_id
           \/ a.document_id = b.document_id /\ a.order_index >= b.order_index
InsertionOrder(rows) ==
  \A i \in 1..(Len(rows) - 1) : RowLeq(rows[i], rows[i + 1])

\* Two laws of one state, or the same law name and identifier in two states
ProvisionDocuments ==
  {<<[jurisdiction |-> "US-CA", title |-> <<"T">>, identifier |-> <<"1">>,
      short_name |-> <<"c", "p">>],
     [jurisdiction |-> "US-CA", title |-> <<"U">>, identifier |-> <<"2">>,
      short_name |-> <<"c", "b">>]>>,
   <<[jurisdiction |-> "US-CA", title |-> <<"T">>, identifier |-> <<"1">>,
      short_name |-> <<"c", "p">>],
     [jurisdiction |-> "US-NY", title |-> <<"T">>, identifier |-> <<"1">>,
      short_name |-> <<"c", "p">>]>>}

ProvisionRows(docs) ==
  {[document_id |-> i, jurisdiction |-> docs[i].jurisdiction,
    section_number |-> s, text |-> <<>>, order_index |-> o] :
      i \in 1..Len(docs), s \in SectionNumbers, o \in OrderIndexes}

InitProvision ==
  /\ \E docs \in ProvisionDocuments :
       db \in [legal_documents : {docs},
               legal_provisions :
                 UNION {[1..n -> ProvisionRows(docs)] : n \in 0..MaxProvisions},
               state_requirements : {<<>>}]
  /\ InsertionOrder(db.legal_provisions)
  /\ call = NoCall
  /\ response = NoResponse
  /\ issued = <<>>

\* law_identifier and short_name as the callers give them: one of the two
\* ("C" is the beginning of both short names of the store in the other case,
\* "x" names no law of the store), or neither
ProvisionLaws ==
  {<<<<"1">>, <<>>>>, <<<<>>, <<"c", "p">>>>, <<<<>>, <<"C">>>>, <<<<>>, <<"x">>>>,
   <<<<>>, <<>>>>}

GetProvision ==
  \E jurisdiction \in {"US-FED", "US-CA", "US-NY", "US-ZZ"},
     law \in ProvisionLaws,
     section_number \in SectionNumbers \cup {<<>>} :
    LET input == [tool |-> "get_provision", jurisdiction |-> jurisdiction,
                  law_identifier |-> law[1], short_name |-> law[2],
                  section_number |-> section_number]
    IN /\ call = NoCall
       /\ \E out \in getProvision(db, input) :
            /\ call' = input
            /\ response' = out.response
            /\ issued' = out.issued
            /\ UNCHANGED db

NextProvision == GetProvision \/ Respond

SpecProvision == InitProvision /\ [][NextProvision]_vars

----------------------------------------------------------------------------
(* validate_citation *)

WordChars == Letters \cup Digits \cup {"_"}
AlphaNumerics == Letters \cup Digits

\* The length of the longest prefix of s made of characters of `chars`
RunLen(s, chars) ==
  IF \A i \in 1..Len(s) : s[i] \in chars THEN Len(s)
  ELSE (CHOOSE i \in 1..Len(s) :
          s[i] \notin chars /\ \A j \in 1..(i - 1) : s[j] \in chars) - 1

\* The length of the longest prefix of s of the form (\([a-zA-Z0-9]+\))*
RECURSIVE ParenGroupsLen(_)
ParenGroupsLen(s) ==
  IF s # <<>> /\ Head(s) = "("
  THEN LET k == RunLen(Tail(s), AlphaNumerics) IN
       IF k >= 1 /\ Len(s) >= k + 2 /\ s[k + 2] = ")"
       THEN k + 2 + ParenGroupsLen(Drop(s, k + 2))
       ELSE 0
  ELSE 0

\* trimmed.match(/§?\s*(\d[\w.-]*(?:\([a-zA-Z0-9]+\))*)/)?.[1]: the match
\* starts at the first digit (or at the section sign and blanks right before
\* it) and its group runs from that digit over the word characters, dots and
\* hyphens that follow and the parenthesized groups after them.  <<>> when
\* there is no digit.
sectionMatch(trimmed) ==
  IF \A i \in 1..Len(trimmed) : trimmed[i] \notin Digits THEN <<>>
  ELSE LET d == CHOOSE i \in 1..Len(trimmed) :
                  /\ trimmed[i] \in Digits
                  /\ \A j \in 1..(i - 1) : trimmed[j] \notin Digits
           rest == Drop(trimmed, d)
           run == RunLen(rest, WordChars \cup {".", "-"})
           groups == ParenGroupsLen(Drop(rest, run))
       IN <<SubSeq(trimmed, d, d + run + groups)>>

\* WHERE (d.identifier LIKE ? ESCAPE '\' OR d.short_name LIKE ? ESCAPE '\'
\*        OR d.title LIKE ? ESCAPE '\') ${jurisdictionClause}
citationDocMatch(doc, likePattern, jurisdiction) ==
  /\ \/ Like(doc.identifier, likePattern, "\\")
     \/ Like(doc.short_name, likePattern, "\\")
     \/ Like(doc.title, likePattern, "\\")
  /\ jurisdiction # "" => doc.jurisdiction = jurisdiction

\* provBaseSql: FROM legal_provisions AS p JOIN legal_documents AS d
\*              ON p.document_id = d.id WHERE (d.identifier = ? OR d.short_name = ?)
provBase(d, docId, docShort) ==
  {p \in Joined(d) :
     DocOf(d, p).identifier = docId \/ DocOf(d, p).short_name = docShort}

\* provBaseSql + AND p.section_number LIKE ? ESCAPE '\'
provLike(d, base, pattern) ==
  {p \in base : Like(d.legal_provisions[p].section_number, pattern, "\\")}

\* provBaseSql + ORDER BY p.order_index LIMIT 1: a row of least order_index
provFirst(d, base) ==
  {p \in base : \A q \in base :
     d.legal_provisions[p].order_index <= d.legal_provisions[q].order_index}

\* The number extracted from the citation tried before the citation itself
sectionTier_FuzzyFirst(direct, fuzzy) ==
  IF fuzzy # {} THEN "section_fuzzy"
  ELSE IF direct # {} THEN "section_exact"
  ELSE "document_only"

\* Strategy 1, then strategy 2 if (!provRow), then strategy 3 if (!provRow)
sectionTier(direct, fuzzy) ==
  IF direct # {} THEN "section_exact"
  ELSE IF fuzzy # {} THEN "section_fuzzy"
  ELSE "document_only"

\* results of the early return: if (!docRow)
citationNotFound(trimmed) ==
  [kind |-> "ok", valid |-> FALSE, citation |-> trimmed, match_quality |-> "none",
   matched_document |-> <<>>, matched_provision |-> <<>>]

\* valid tied to a provision having been found
citationValid_NeedsProvision(provRow) == provRow # <<>>

\* valid: true
citationValid(provRow) == TRUE

\* results of the final return; a row is given by its id, null is <<>>
citationFound(trimmed, matchQuality, docRow, provRow) ==
  [kind |-> "ok", valid |-> citationValid(provRow), citation |-> trimmed,
   match_quality |-> matchQuality,
   matched_document |-> <<docRow>>, matched_provision |-> provRow]

\* The possible answers of validateCitation: LIMIT 1 without ORDER BY
\* returns any one of the rows the statement selects
validateCitation(d, input) ==
  IF validateNonEmptyStringThrows(input.citation)
       \/ validateJurisdictionThrows(input.jurisdiction, FALSE)
  THEN {[response |-> ValidationError, issued |-> <<>>]}
  ELSE
    LET trimmed == Trim(input.citation)
        likePattern == <<"%">> \o EscapeWildcards(trimmed) \o <<"%">>
        docRows == {i \in DocIds(d) :
                      citationDocMatch(d.legal_documents[i], likePattern,
                                       input.jurisdiction)}
    IN
    IF docRows = {}
    THEN {[response |-> citationNotFound(trimmed),
           issued |-> <<Statement("document", <<>>)>>]}
    ELSE UNION {
      LET docId == d.legal_documents[docRow].identifier
          docShort == d.legal_documents[docRow].short_name
          base == provBase(d, docId, docShort)
          direct == provLike(d, base, likePattern)
          ref == sectionMatch(trimmed)
          \* what strategy 2 selects; it is run only after strategy 1 failed
          fuzzy == IF ref # <<>>
                   THEN provLike(d, base,
                                 <<"%">> \o EscapeWildcards(ref[1]) \o <<"%">>)
                   ELSE {}
          tier == sectionTier(direct, fuzzy)
          rows == IF tier = "section_exact" THEN direct
                  ELSE IF tier = "section_fuzzy" THEN fuzzy
                  ELSE provFirst(d, base)
          ran == <<Statement("document", <<docRow>>)>>
                   \o <<Statement("direct", IF direct = {} THEN <<>> ELSE <<"row">>)>>
                   \o (IF direct = {} /\ ref # <<>>
                       THEN <<Statement("fuzzy", IF fuzzy = {} THEN <<>> ELSE <<"row">>)>>
                       ELSE <<>>)
                   \o (IF tier = "document_only"
                       THEN <<Statement("first", IF rows = {} THEN <<>> ELSE <<"row">>)>>
                       ELSE <<>>)
      IN IF rows = {}
         THEN {[response |-> citationFound(trimmed, tier, docRow, <<>>),
                issued |-> ran]}
         ELSE {[response |-> citationFound(trimmed, tier, docRow, <<p>>),
                issued |-> ran] : p \in rows} :
      docRow \in docRows}

----------------------------------------------------------------------------
(* validate_citation over a small store *)

MaxCitationLen == 3   \* longest citation, in characters

\* "c" stands for a law's name, "1" for a number, the backslash and the
\* blank for themselves
CitationChars == {"c", "1", "\\", " "}
Citations == SeqsUpTo(CitationChars, MaxCitationLen)

\* The same law (name and identifier) in two states, or two laws of one state
CitationDocuments ==
  {<<[jurisdiction |-> "US-CA", title |-> <<"c", "c">>, identifier |-> <<"c", "1">>,
      short_name |-> <<"c">>],
     [jurisdiction |-> "US-NY", title |-> <<"c", "c">>, identifier |-> <<"c", "1">>,
      short_name |-> <<"c">>]>>,
   <<[jurisdiction |-> "US-CA", title |-> <<"c", "c">>, identifier |-> <<"c", "1">>,
      short_name |-> <<"c">>],
     [jurisdiction |-> "US-CA", title |-> <<"2">>, identifier |-> <<"c", "2">>,
      short_name |-> <<"d">>]>>}

CitationSectionList == <<<<"1">>, <<"2">>>>

CitationRows(docs) ==
  {[document_id |-> i, jurisdiction |-> docs[i].jurisdiction,
    section_number |-> s, text |-> <<>>, order_index |-> o] :
      i \in 1..Len(docs), s \in Range(CitationSectionList), o \in OrderIndexes}

CitationRowLeq(a, b) ==
  \/ a.document_id < b.document_id
  \/ /\ a.document_id = b.document_id
     /\ \/ a.section_number = b.section_number /\ a.order_index >= b.order_index
        \/ a.section_number = <<"1">> /\ b.section_number = <<"2">>

\* validateCitation never reads a rowid, so one order of insertion stands
\* for each store (by document, then section, then ordinal descending).
InitCitation ==
  /\ \E docs \in CitationDocuments :
       db \in [legal_documents : {docs},
               legal_provisions :
                 UNION {[1..n -> CitationRows(docs)] : n \in 0..MaxProvisions},
               state_requirements : {<<>>}]
  /\ \A i \in 1..(Len(db.legal_provisions) - 1) :
       CitationRowLeq(db.legal_provisions[i], db.legal_provisions[i + 1])
  /\ call = NoCall
  /\ response = NoResponse
  /\ issued = <<>>

ValidateCitation ==
  \E citation \in Citations, jurisdiction \in {"", "US-CA", "US-ZZ"} :
    LET input == [tool |-> "validate_citation", citation |-> citation,
                  jurisdiction |-> jurisdiction]
    IN /\ call = NoCall
       /\ \E out \in validateCitation(db, input) :
            /\ call' = input
            /\ response' = out.response
            /\ issued' = out.issued
            /\ UNCHANGED db

NextCitation == ValidateCitation \/ Respond

SpecCitation == InitCitation /\ [][NextCitation]_vars

----------------------------------------------------------------------------
(* compare_requirements *)

COMPARE_LIMIT == 200

\* The subcategories of the model in the order of BINARY collation
SubcategoryOrder == <<<<"s">>, <<"t">>>>

\* FROM state_requirements AS sr
\* JOIN requirement_categories AS rc ON sr.category_id = rc.id
Classified(d) ==
  {r \in ReqIds(d) :
     d.state_requirements[r].category_id \in 1..Len(d.requirement_categories)}
CategoryOf(d, r) == d.requirement_categories[d.state_requirements[r].category_id]

\* The wildcard recognised anywhere in the list
compareIsAll_Anywhere(jurisdictions) == "all" \in Range(jurisdictions)

\* isAll: the list has one member and it is 'all'
compareIsAll(jurisdictions) ==
  Len(jurisdictions) = 1 /\ jurisdictions[1] = "all"

\* WHERE rc.category = ? [AND rc.subcategory = ?] [AND sr.jurisdiction IN (...)]
compareConditions(d, input, r) ==
  /\ r \in Classified(d)
  /\ CategoryOf(d, r).category = input.category
  /\ input.subcategory # <<>> => CategoryOf(d, r).subcategory = input.subcategory
  /\ ~compareIsAll(input.jurisdictions)
       => d.state_requirements[r].jurisdiction \in Range(input.jurisdictions)

\* The rows the WHERE clause keeps, in rowid order
compareRows(d, input) ==
  LET keep(r) == compareConditions(d, input, r)
  IN SelectSeq([r \in ReqIds(d) |-> r], keep)

\* The sort keys (jurisdiction, subcategory) in ascending order
CompareKeys ==
  [k \in 1..(Len(JurisdictionOrder) * Len(SubcategoryOrder)) |->
     [jurisdiction |-> JurisdictionOrder[((k - 1) \div Len(SubcategoryOrder)) + 1],
      subcategory |-> SubcategoryOrder[((k - 1) % Len(SubcategoryOrder)) + 1]]]

RECURSIVE CompareFromKey(_, _, _)
CompareFromKey(d, rows, k) ==
  IF k > Len(CompareKeys) THEN <<>>
  ELSE LET has(r) ==
             /\ d.state_requirements[r].jurisdiction = CompareKeys[k].jurisdiction
             /\ CategoryOf(d, r).subcategory = CompareKeys[k].subcategory
       IN SelectSeq(rows, has) \o CompareFromKey(d, rows, k + 1)

\* The rows as the WHERE clause left them: the statement without ORDER BY
compareOrderBy_Rowid(d, rows) == rows

\* ORDER BY sr.jurisdiction, rc.subcategory (rows with equal keys in rowid
\* order)
compareOrderBy(d, rows) == CompareFromKey(d, rows, 1)

\* The answer of compareRequirements with the statements it ran
compareRequirements(d, input) ==
  IF validateNonEmptyStringThrows(input.category)
  THEN [response |-> ValidationError, issued |-> <<>>]
  ELSE IF /\ ~compareIsAll(input.jurisdictions)
          /\ \E i \in 1..Len(input.jurisdictions) :
               validateJurisdictionThrows(input.jurisdictions[i], TRUE)
  THEN [response |-> ValidationError, issued |-> <<>>]
  ELSE IF ~compareIsAll(input.jurisdictions) /\ Len(input.jurisdictions) = 0
  THEN [response |-> [kind |-> "ok", results |-> <<>>], issued |-> <<>>]
  ELSE LET rows == Take(compareOrderBy(d, compareRows(d, input)), COMPARE_LIMIT)
       IN [response |-> [kind |-> "ok", results |-> rows],
           issued |-> <<Statement("compare", rows)>>]

----------------------------------------------------------------------------
(* compare_requirements over small and large sets of classified requirements *)

MaxRequirements == 2   \* most single requirement rows in the store
MaxCompareList == 2    \* longest jurisdictions list of a call

\* "b" and "p" stand for two categories, "s" and "t" for two subcategories
CompareCategories ==
  <<[category |-> <<"b">>, subcategory |-> <<"s">>],
    [category |-> <<"b">>, subcategory |-> <<"t">>],
    [category |-> <<"p">>, subcategory |-> <<"s">>]>>

CompareRowSet ==
  {[jurisdiction |-> j, category_id |-> c, summary_text |-> <<"x">>] :
     j \in {"US-CA", "US-NY"}, c \in 1..Len(CompareCategories)}

\* One order of insertion stands for the stores with the same rows: by
\* jurisdiction and category id, both descending, so that no store is
\* inserted in the order the statement sorts by.
CompareRowLeq(a, b) ==
  \/ JurisdictionRank(a.jurisdiction) > JurisdictionRank(b.jurisdiction)
  \/ /\ a.jurisdiction = b.jurisdiction
     /\ a.category_id >= b.category_id

\* A state with as many rows of one subcategory as the statement's LIMIT
CompareBlock ==
  [i \in 1..COMPARE_LIMIT |->
     [jurisdiction |-> "US-CA", category_id |-> 1, summary_text |-> <<"x">>]]

InitCompare ==
  /\ \E rows \in UNION {[1..n -> CompareRowSet] : n \in 0..MaxRequirements},
        block \in {<<>>, CompareBlock} :
       /\ \A i \in 1..(Len(rows) - 1) : CompareRowLeq(rows[i], rows[i + 1])
       /\ db = [legal_documents |-> <<>>, legal_provisions |-> <<>>,
                requirement_categories |-> CompareCategories,
                state_requirements |-> rows \o block]
  /\ call = NoCall
  /\ response = NoResponse
  /\ issued = <<>>

CompareLists ==
  UNION {[1..n -> {"all", "US-CA", "US-NY", "US-ZZ"}] : n \in 0..MaxCompareList}

CompareRequirements ==
  \E category \in {<<"b">>, <<"p">>, <<" ">>},
     subcategory \in {<<>>, <<"s">>, <<"t">>},
     jurisdictions \in CompareLists :
    LET input == [tool |-> "compare_requirements", category |-> category,
                  subcategory |-> subcategory, jurisdictions |-> jurisdictions]
        out == compareRequirements(db, input)
    IN /\ call = NoCall
       /\ call' = input
       /\ response' = out.response
       /\ issued' = out.issued
       /\ UNCHANGED db

NextCompare == CompareRequirements \/ Respond

SpecCompare == InitCompare /\ [][NextCompare]_vars

----------------------------------------------------------------------------
(* The pipeline: the fetchers write seed files, the ingest loads them *)

MaxSeedDocuments == 3    \* most documents the ingests put into the store

\* The federal manifest of one title: two statutes and their section lists
FEDERAL_TARGETS ==
  <<[name |-> <<"T">>, identifier |-> <<"1">>, short_name |-> <<"c", "p">>,
     sections |-> <<<<"1">>, <<"2">>, <<"3">>>>],
    [name |-> <<"U">>, identifier |-> <<"2">>, short_name |-> <<"c", "b">>,
     sections |-> <<<<"1">>>>]>>

\* The state manifest: two statutes in one state, one in the other
STATE_TARGETS ==
  <<[code |-> "US-CA",
     statutes |-> <<[name |-> <<"T">>, citation |-> <<"1">>,
                     shortName |-> <<"c", "p">>],
                    [name |-> <<"U">>, citation |-> <<"2">>,
                     shortName |-> <<"c", "b">>]>>],
    [code |-> "US-NY",
     statutes |-> <<[name |-> <<"T">>, citation |-> <<"1">>,
                     shortName |-> <<"c", "p">>]>>]>>

NoSeed == [documents |-> <<>>, provisions |-> <<>>]

\* processTarget: one provision for each section that was downloaded and
\* parsed (parsed[i] tells whether section i was), numbered from 1 in the
\* order of the section list
processTarget_SameIndex(target, docIndex, parsed) ==
  LET n == Len(target.sections)
      got == SelectSeq([i \in 1..n |-> i], LAMBDA i : parsed[i])
  IN [k \in 1..Len(got) |->
        [document_index |-> docIndex,
         jurisdiction |-> "US-FED",
         section_number |-> <<"§", " ">> \o target.sections[got[k]],
         text |-> <<>>,
         order_index |-> 1]]

processTarget(target, docIndex, parsed) ==
  LET n == Len(target.sections)
      got == SelectSeq([i \in 1..n |-> i], LAMBDA i : parsed[i])
  IN [k \in 1..Len(got) |->
        [document_index |-> docIndex,
         jurisdiction |-> "US-FED",
         section_number |-> <<"§", " ">> \o target.sections[got[k]],
         text |-> <<>>,
         order_index |-> k]]

\* The seed file of a title: its targets from the k-th on are added to seed
RECURSIVE fetchUscodeFrom(_, _, _)
fetchUscodeFrom(parsedOf, k, seed) ==
  IF k > Len(FEDERAL_TARGETS) THEN seed
  ELSE LET target == FEDERAL_TARGETS[k]
           docIndex == Len(seed.documents)
           doc == [jurisdiction |-> "US-FED", title |-> target.name,
                   identifier |-> target.identifier,
                   short_name |-> target.short_name]
       IN fetchUscodeFrom(parsedOf, k + 1,
            [documents |-> Append(seed.documents, doc),
             provisions |-> seed.provisions
                              \o processTarget(target, docIndex, parsedOf[k])])

FederalSeeds ==
  {fetchUscodeFrom(parsedOf, 1, NoSeed) :
     parsedOf \in {f \in [1..Len(FEDERAL_TARGETS) ->
                            UNION {[1..Len(FEDERAL_TARGETS[k].sections) -> BOOLEAN] :
                                     k \in 1..Len(FEDERAL_TARGETS)}] :
                     \A k \in 1..Len(FEDERAL_TARGETS) :
                       Len(f[k]) = Len(FEDERAL_TARGETS[k].sections)}}

\* What fetching and parsing a statute's page gives: no page, a parser that
\* throws, or the section numbers of the provisions the parser returns
FetchFailed == [kind |-> "fetch_failed"]
ParserError == [kind |-> "parser_error"]
Parsed(sections) == [kind |-> "parsed", sections |-> sections]
StatuteOutcomes ==
  {FetchFailed, ParserError, Parsed(<<>>), Parsed(<<<<"1">>>>),
   Parsed(<<<<"1">>, <<"2">>>>)}

\* The jurisdiction processState writes on each provision of a state
stateProvisionJurisdiction_Federal(state) == "US-FED"
stateProvisionJurisdiction(state) == state.code

\* processState: the seed file of a state, its statutes from the k-th on
\* added to seed; a statute whose page or parser failed keeps its document
\* and gets no provision
RECURSIVE processStateFrom(_, _, _, _)
processStateFrom(state, outcomeOf, k, seed) ==
  IF k > Len(state.statutes) THEN seed
  ELSE LET statute == state.statutes[k]
           docIndex == Len(seed.documents)
           doc == [jurisdiction |-> state.code, title |-> statute.name,
                   identifier |-> statute.citation,
                   short_name |-> statute.shortName]
           provisions(outcome) ==
             IF outcome.kind # "parsed" THEN <<>>
             ELSE [i \in 1..Len(outcome.sections) |->
                     [document_index |-> docIndex,
                      jurisdiction |-> stateProvisionJurisdiction(state),
                      section_number |-> outcome.sections[i],
                      text |-> <<>>,
                      order_index |-> i]]
       IN processStateFrom(state, outcomeOf, k + 1,
            [documents |-> Append(seed.documents, doc),
             provisions |-> seed.provisions \o With(outcomeOf[k], provisions)])

processState(state, outcomeOf) == processStateFrom(state, outcomeOf, 1, NoSeed)

StateSeeds ==
  UNION {{processState(STATE_TARGETS[s], outcomeOf) :
            outcomeOf \in [1..Len(STATE_TARGETS[s].statutes) -> StatuteOutcomes]} :
           s \in 1..Len(STATE_TARGETS)}

\* addProvisions of populate-missing-states: the provisions of a state's
\* seed file are replaced by the given ones, numbered from 1 in the order
\* given, whatever document each belongs to
addProvisions(seed, jurisdiction, provisions) ==
  [seed EXCEPT !.provisions =
     [i \in 1..Len(provisions) |->
        [document_index |-> provisions[i].document_index,
         jurisdiction |-> jurisdiction,
         section_number |-> provisions[i].section_number,
         text |-> <<>>,
         order_index |-> i]]]

\* The seed file of the first state, fetched with no page parsed, and then
\* populated with provisions of one or of both of its documents
PopulatedSeeds ==
  LET state == STATE_TARGETS[1]
      fetched == processState(state, [k \in 1..Len(state.statutes)
                                        |-> FetchFailed])
      given(document_index, section) ==
        [document_index |-> document_index, section_number |-> section]
  IN {addProvisions(fetched, state.code, provisions) :
        provisions \in {<<given(0, <<"1">>), given(0, <<"2">>)>>,
                        <<given(0, <<"1">>), given(1, <<"1">>),
                          given(0, <<"2">>)>>}}

\* The ingest of one seed file: every document gets a new row (the table has
\* no uniqueness constraint, so INSERT OR IGNORE always inserts) and docIds
\* remembers its id; every provision whose document_index has a docId is
\* inserted under that id with the jurisdiction the seed gives it, the
\* others are skipped with a warning
ingestSeed(d, seed) ==
  LET base == Len(d.legal_documents)
      docIds == [i \in 1..Len(seed.documents) |-> base + i]
      known(prov) == prov.document_index + 1 \in 1..Len(docIds)
      kept == SelectSeq(seed.provisions, known)
      rows == [k \in 1..Len(kept) |->
                 [document_id |-> docIds[kept[k].document_index + 1],
                  jurisdiction |-> kept[k].jurisdiction,
                  section_number |-> kept[k].section_number,
                  text |-> kept[k].text,
                  order_index |-> kept[k].order_index]]
  IN [d EXCEPT !.legal_documents = @ \o seed.documents,
               !.legal_provisions = @ \o rows]

\* ingestAll: the seed files in turn, in one transaction
RECURSIVE ingestAll(_, _)
ingestAll(d, seedFiles) ==
  IF seedFiles = <<>> THEN d
  ELSE ingestAll(ingestSeed(d, seedFiles[1]), Drop(seedFiles, 1))

\* build:db leaves the tables empty
InitPipeline ==
  /\ db = [legal_documents |-> <<>>, legal_provisions |-> <<>>,
           state_requirements |-> <<>>]
  /\ call = NoCall
  /\ response = NoResponse
  /\ issued = <<>>

\* fetch:federal followed by ingest:federal
IngestFederal ==
  /\ call = NoCall
  /\ \E seed \in FederalSeeds :
       /\ db' = ingestAll(db, <<seed>>)
       /\ Len(db'.legal_documents) <= MaxSeedDocuments
  /\ UNCHANGED <<call, response, issued>>

\* fetch:states followed by the ingest of the state seed files
IngestStates ==
  /\ call = NoCall
  /\ \E seed \in StateSeeds \cup PopulatedSeeds :
       /\ db' = ingestAll(db, <<seed>>)
       /\ Len(db'.legal_documents) <= MaxSeedDocuments
  /\ UNCHANGED <<call, response, issued>>

NextPipeline == IngestFederal \/ IngestStates \/ GetProvision \/ Respond

SpecPipeline == InitPipeline /\ [][NextPipeline]_vars

----------------------------------------------------------------------------
(* The regex fallback parser (simple-html) *)

SIMPLE_MIN_TEXT == 50    \* if (text.length < 50) return []
SLICE_CAP == 10000       \* most characters of the sentinel and of the last slice
MIN_BODY == 10           \* if (textBody.length > 10)
TITLE_MAX == 200         \* firstLine.length < 200

LEGISLATURE_MIN_CONTENT == 100    \* if (text.length > 100) $content = $el

SectionNumberChars == WordChars \cup {".", "-"}

\* The offset where the run of characters of `chars` that begins at the
\* offset `from` of text ends
RunEnd(text, from, chars) ==
  With(from, LAMBDA i :
    CHOOSE j \in i..Len(text) :
      /\ \A k \in (i + 1)..j : text[k] \in chars
      /\ j = Len(text) \/ text[j + 1] \notin chars)

NoHit == [len |-> 0, number |-> <<>>]

\* SECTION_RE tried at the offset i of text: the length of the match (0 when
\* there is none) and the section number it captures.  Of the three
\* alternatives only the one of the section sign is written out: the texts
\* here hold no word "Section", "Sec.", "Article" or "Art.".
sectionReAt(text, i) ==
  IF i < 0 \/ i >= Len(text) \/ text[i + 1] # "§" THEN NoHit
  ELSE LET signs == IF i + 2 <= Len(text) /\ text[i + 2] = "§" THEN 2 ELSE 1
       IN With(RunEnd(text, i + signs, WhiteSpace), LAMBDA start :
            IF start >= Len(text) \/ text[start + 1] \notin Digits THEN NoHit
            ELSE With(RunEnd(text, start, SectionNumberChars), LAMBDA end :
                   [len |-> end - i, number |-> SubSeq(text, start + 1, end)]))

\* The loop over SECTION_RE.exec(text): the offsets of the matches, from left
\* to right without overlap.  A match begins with a section sign and holds
\* no other one except as its second character, so the loop skips a match
\* exactly when one begins at the character before it.
sectionPositions(text) ==
  SelectSeq([i \in 1..Len(text) |-> i - 1],
            LAMBDA i : /\ sectionReAt(text, i).len > 0
                       /\ sectionReAt(text, i - 1).len = 0)

\* sectionText.replace(SECTION_RE, ''): the characters outside the matches
removeSections(s) ==
  With(sectionPositions(s), LAMBDA offsets :
    With([k \in 1..Len(offsets) |-> offsets[k] + sectionReAt(s, offsets[k]).len],
         LAMBDA ends :
           With(SelectSeq([i \in 1..Len(s) |-> i],
                          LAMBDA i : \A k \in 1..Len(offsets) :
                                       i <= offsets[k] \/ i > ends[k]),
                LAMBDA kept : [k \in 1..Len(kept) |-> s[kept[k]]])))

\* The body of the slice of the i-th section: from its marker to the next
\* marker (to the cap or the end of the text for the last one), trimmed,
\* without the markers and without leading blanks, dots, colons and hyphens
textBody(text, offsets, i) ==
  LET endIndex == IF i < Len(offsets) THEN offsets[i + 1]
                  ELSE Min(offsets[i] + SLICE_CAP, Len(text))
  IN With(Trim(SubSeq(text, offsets[i] + 1, endIndex)), LAMBDA sectionText :
       With(removeSections(sectionText), LAMBDA stripped :
         Trim(Drop(stripped, RunEnd(stripped, 0, WhiteSpace \cup {".", ":", "-"})))))

Returned(provisions) == [kind |-> "returned", provisions |-> provisions]
Thrown == [kind |-> "thrown"]

\* The try block of parseSimpleHtml on the text that htmlToText gives (one
\* line: the title is the first line of the body)
simpleProvisions(text) ==
  IF Len(text) < SIMPLE_MIN_TEXT THEN <<>>
  ELSE With(sectionPositions(text), LAMBDA offsets :
    IF offsets = <<>>
    THEN <<[sectionNumber |-> <<"u", "n", "k", "n", "o", "w", "n">>,
            title |-> <<>>,
            text |-> Take(text, SLICE_CAP)]>>
    ELSE SelectSeq(
           [i \in 1..Len(offsets) |->
              With(textBody(text, offsets, i), LAMBDA body :
                [sectionNumber |-> <<"§", " ">> \o sectionReAt(text, offsets[i]).number,
                 title |-> IF Len(body) < TITLE_MAX THEN body ELSE <<>>,
                 text |-> body])],
           LAMBDA p : Len(p.text) > MIN_BODY))

\* parseSimpleHtml without its catch clause
parseSimpleHtml_Rethrows(text, fails) ==
  IF fails THEN Thrown ELSE Returned(simpleProvisions(text))

\* parseSimpleHtml: the provisions of the try block, or the empty list when
\* anything in the block throws (fails)
parseSimpleHtml(text, fails) ==
  IF fails THEN Returned(<<>>) ELSE Returned(simpleProvisions(text))

----------------------------------------------------------------------------
(* fetch:states over pages given by their normalized text *)

MaxPieces == 3    \* most pieces a page text is made of

Fill(n) == [i \in 1..n |-> "a"]
Marker == <<"§", "1">>
\* A list of section markers as a table of contents has it, 50 characters
Contents ==
  [i \in 1..SIMPLE_MIN_TEXT |->
     IF i % 3 = 1 THEN "§" ELSE IF i % 3 = 2 THEN "1" ELSE " "]
TextPieces == {Marker, <<" ">>, Fill(MIN_BODY + 1), Fill(SIMPLE_MIN_TEXT), Contents}

RECURSIVE Concat(_)
Concat(pieces) ==
  IF pieces = <<>> THEN <<>> ELSE Head(pieces) \o Concat(Tail(pieces))

\* htmlToText trims and leaves no two blanks in a row
Normalized(text) ==
  /\ Trim(text) = text
  /\ \A i \in 1..(Len(text) - 1) : ~(text[i] = " " /\ text[i + 1] = " ")

Texts ==
  {text \in {Concat(pieces) : pieces \in {<<>>} \cup SeqsUpTo(TextPieces, MaxPieces)} :
     Normalized(text)}

\* Pages longer than the cap: without marker, with one section, and with a
\* long section before a second one
LongTexts ==
  {Fill(SLICE_CAP + 1),
   Marker \o <<" ">> \o Fill(SLICE_CAP + 1),
   Marker \o <<" ">> \o Fill(SLICE_CAP + 1) \o <<" ">> \o Marker \o <<" ">>
     \o Fill(MIN_BODY + 1)}

\* The pages a batch meets (an empty page counts as no page): a short text,
\* a text without marker, a section with a body, markers without bodies,
\* and a section long enough for the content test of parseLegislature
BatchTexts ==
  {Fill(MIN_BODY + 1), Fill(SIMPLE_MIN_TEXT),
   Marker \o <<" ">> \o Fill(SIMPLE_MIN_TEXT), Contents,
   Marker \o <<" ">> \o Fill(LEGISLATURE_MIN_CONTENT)}
NoPage == [kind |-> "no_page"]

\* The try block of parseLegislature: nothing when no container holds more
\* than 100 characters of text, else the sections its three strategies find
\* in the markup of the page (structured: their section numbers)
legislatureProvisions(text, structured) ==
  IF Len(text) <= LEGISLATURE_MIN_CONTENT THEN <<>>
  ELSE [i \in 1..Len(structured) |->
          [sectionNumber |-> structured[i], title |-> <<>>, text |-> <<>>]]

\* parseLegislature: its try block, or the empty list when the block throws
parseLegislature(text, structured, fails) ==
  IF fails THEN Returned(<<>>)
  ELSE Returned(legislatureProvisions(text, structured))

\* getParser: the registry knows the name or throws ("leginfo", the third
\* name it knows, is not written out)
ParserNames == {"legislature", "simple-html"}

\* The one parser processState runs on a page: the function the registry
\* holds under statute.parserType
runParser(run) ==
  IF run.parserType = "legislature"
  THEN parseLegislature(run.text, run.structured, run.fails)
  ELSE parseSimpleHtml(run.text, run.fails)

\* processState on one statute: fetchHtml gave no page, or resolveParser or
\* the parser threw, or the parser returned its provisions
statuteOutcome(run) ==
  IF run.kind = "no_page" THEN FetchFailed
  ELSE IF run.parserType \notin ParserNames THEN ParserError
  ELSE With(runParser(run), LAMBDA out :
         IF out.kind = "thrown" THEN ParserError
         ELSE Parsed([i \in 1..Len(out.provisions) |->
                        out.provisions[i].sectionNumber]))

\* main: the seed file of every state of the manifest, in turn
fetchStates(runs) ==
  [s \in 1..Len(STATE_TARGETS) |->
     processState(STATE_TARGETS[s],
                  [k \in 1..Len(runs[s]) |-> statuteOutcome(runs[s][k])])]

InitFetch ==
  /\ db = [legal_documents |-> <<>>, legal_provisions |-> <<>>,
           state_requirements |-> <<>>]
  /\ call = NoCall
  /\ response = NoResponse
  /\ issued = <<>>

\* The parser of the registry applied to one page
ParseSimpleHtml ==
  /\ call = NoCall
  /\ \E text \in Texts \cup LongTexts, fails \in BOOLEAN :
    /\ call' = [tool |-> "simple-html", text |-> text, fails |-> fails]
    /\ response' = parseSimpleHtml(text, fails)
    /\ UNCHANGED <<db, issued>>

\* What a statute meets in a run: no page, or a page, the parser its
\* manifest entry names and whether the parser fails inside
StatuteRuns ==
  LET Pages(parserTypes, structures) ==
        {[kind |-> "page", text |-> text, structured |-> structured,
          parserType |-> parserType, fails |-> fails] :
           text \in BatchTexts, structured \in structures,
           parserType \in parserTypes, fails \in BOOLEAN}
  IN {NoPage} \cup Pages({"simple-html", "unknown"}, {<<>>})
       \cup {run \in Pages({"legislature"}, {<<>>, <<<<"§", " ", "1">>>>}) :
               run.structured = <<>> \/ Len(run.text) > LEGISLATURE_MIN_CONTENT}

\* One run of fetch:states over the manifest
FetchStates ==
  /\ call = NoCall
  /\ \E first \in [1..Len(STATE_TARGETS[1].statutes) -> StatuteRuns],
        second \in [1..Len(STATE_TARGETS[2].statutes) -> StatuteRuns] :
       /\ call' = [tool |-> "fetch:states", runs |-> <<first, second>>]
       /\ response' = [kind |-> "ok", seeds |-> fetchStates(<<first, second>>)]
       /\ UNCHANGED <<db, issued>>

NextFetch == ParseSimpleHtml \/ FetchStates \/ Respond

SpecFetch == InitFetch /\ [][NextFetch]_vars

----------------------------------------------------------------------------
(* The fetch scripts: cache files, network, politeness delays              *)
(*                                                                         *)
(* In this part db is the cache directory of the script that runs          *)
(* (db.script names it): one entry for each cache file, absent or a file   *)
(* with its age in days and its content.  issued is the run's trace: one   *)
(* event for each download (served from the cache or requested over the    *)
(* network) and one for each delay, in the order they happen; the script   *)
(* awaits each of them before it goes on.                                  *)

CACHE_TTL == 30          \* thirtyDays, in days
FEDERAL_DELAY == 200     \* await delay(200)
STATE_DELAY == 2000      \* await delay(2000)
LAWSERVER_DELAY == 1000  \* await delay(1000)

Null == "null"
NoEntry == [kind |-> "absent"]
Entry(age, content) == [kind |-> "file", age |-> age, content |-> content]

\* What a page holds: text the script's parser extracts a section from, or
\* text it extracts nothing from
PageContents == {"parses", "unparsed"}

\* What the network answers: a page, a page of the US Code endpoint without
\* a section element, an HTTP error status, or a timeout or other exception
Ok(content) == [kind |-> "ok", content |-> content]
HttpError == [kind |-> "http_error"]
Throws == [kind |-> "throws"]
HtmlReplies == {Ok(c) : c \in PageContents} \cup {HttpError, Throws}
XmlReplies == HtmlReplies \cup {Ok("no_section")}

Delay(ms) == [kind |-> "delay", ms |-> ms]
Download(kind, key, entry, got) ==
  [kind |-> kind, key |-> key, entry |-> entry, got |-> got]

\* downloadSectionXml: the cache file when it is less than thirty days old;
\* otherwise the endpoint's answer, which is cached, and when the request
\* fails or the answer has no section, the stale cache file if there is one
downloadSectionXml(files, key, reply) ==
  LET entry == files[key]
      staleCached == IF entry.kind = "file" THEN entry.content ELSE Null
  IN IF entry.kind = "file" /\ entry.age < CACHE_TTL
       THEN [got |-> staleCached, files |-> files,
             event |-> Download("cached", key, entry, staleCached)]
     ELSE IF reply.kind = "ok" /\ reply.content # "no_section"
       THEN [got |-> reply.content,
             files |-> [files EXCEPT ![key] = Entry(0, reply.content)],
             event |-> Download("request", key, entry, reply.content)]
     ELSE [got |-> staleCached, files |-> files,
           event |-> Download("request", key, entry, staleCached)]

\* fetchHtml of fetch:states: the cache file when it is less than thirty
\* days old; otherwise the site's answer, which is cached, and null when the
\* request fails
fetchHtml_NeverCached(files, url, reply) ==
  LET entry == files[url]
  IN IF reply.kind = "ok"
       THEN [got |-> reply.content,
             files |-> [files EXCEPT ![url] = Entry(0, reply.content)],
             event |-> Download("request", url, entry, reply.content)]
     ELSE [got |-> Null, files |-> files,
           event |-> Download("request", url, entry, Null)]

fetchHtml(files, url, reply) ==
  LET entry == files[url]
  IN IF entry.kind = "file" /\ entry.age < CACHE_TTL
       THEN [got |-> entry.content, files |-> files,
             event |-> Download("cached", url, entry, entry.content)]
     ELSE IF reply.kind = "ok"
       THEN [got |-> reply.content,
             files |-> [files EXCEPT ![url] = Entry(0, reply.content)],
             event |-> Download("request", url, entry, reply.content)]
     ELSE [got |-> Null, files |-> files,
           event |-> Download("request", url, entry, Null)]

\* fetchHtml of the LawServer fetcher
fetchHtmlLawServer(files, url, reply) ==
  LET entry == files[url]
  IN IF entry.kind = "file" /\ entry.age < CACHE_TTL
       THEN [got |-> entry.content, files |-> files,
             event |-> Download("cached", url, entry, entry.content)]
     ELSE IF reply.kind = "ok"
       THEN [got |-> reply.content,
             files |-> [files EXCEPT ![url] = Entry(0, reply.content)],
             event |-> Download("request", url, entry, reply.content)]
     ELSE [got |-> Null, files |-> files,
           event |-> Download("request", url, entry, Null)]

\* The downloads of a run in order: <<k, i>> is section i of target k, or
\* statute i of state k
StepsOf(lengths) ==
  LET width == CHOOSE w \in {lengths[k] : k \in 1..Len(lengths)} :
                 \A k \in 1..Len(lengths) : lengths[k] <= w
      grid == [n \in 1..(Len(lengths) * width) |->
                 <<((n - 1) \div width) + 1, ((n - 1) % width) + 1>>]
  IN SelectSeq(grid, LAMBDA step : step[2] <= lengths[step[1]])

FederalSteps ==
  StepsOf([k \in 1..Len(FEDERAL_TARGETS) |-> Len(FEDERAL_TARGETS[k].sections)])
StateSteps ==
  StepsOf([s \in 1..Len(STATE_TARGETS) |-> Len(STATE_TARGETS[s].statutes)])

StepIndex(steps, k, i) == CHOOSE n \in 1..Len(steps) : steps[n] = <<k, i>>

NoRun == [log |-> <<>>, got |-> <<>>]

\* fetch-uscode, main and processTarget: the sections of every target in
\* turn from the n-th download on; a section that was downloaded and parsed
\* is followed by a delay, the others are skipped at once.  The cache file
\* of a section is named by title and section; the targets are of one title.
RECURSIVE fetchUscodeRunFrom(_, _, _, _)
fetchUscodeRunFrom(files, replies, n, run) ==
  IF n > Len(FederalSteps) THEN [files |-> files] @@ run
  ELSE LET step == FederalSteps[n]
           section == FEDERAL_TARGETS[step[1]].sections[step[2]]
           d == With(downloadSectionXml(files, section, replies[n]),
                     LAMBDA x : x)
       IN fetchUscodeRunFrom(d.files, replies, n + 1,
            [log |-> Append(run.log, d.event)
                       \o (IF d.got = "parses" THEN <<Delay(FEDERAL_DELAY)>>
                           ELSE <<>>),
             got |-> Append(run.got, d.got)])

fetchUscodeRun(files, replies) ==
  LET run == With(fetchUscodeRunFrom(files, replies, 1, NoRun), LAMBDA x : x)
      parsedOf == [k \in 1..Len(FEDERAL_TARGETS) |->
                     [i \in 1..Len(FEDERAL_TARGETS[k].sections) |->
                        run.got[StepIndex(FederalSteps, k, i)] = "parses"]]
  IN [files |-> run.files, log |-> run.log, got |-> run.got,
      seeds |-> <<fetchUscodeFrom(parsedOf, 1, NoSeed)>>]

\* What processState makes of a statute's page
pageOutcome(got) ==
  IF got = Null THEN FetchFailed
  ELSE IF got = "parses" THEN Parsed(<<<<"1">>>>)
  ELSE Parsed(<<>>)

\* fetch:states, main and processState: the statutes of every state in turn
\* from the n-th download on; every statute but the first of its state is
\* preceded by a delay.  The cache file is named by the state's directory
\* and the statute's URL.
RECURSIVE fetchStatesRunFrom(_, _, _, _)
fetchStatesRunFrom(files, replies, n, run) ==
  IF n > Len(StateSteps) THEN [files |-> files] @@ run
  ELSE LET step == StateSteps[n]
           isFirstRequest == step[2] = 1
           d == With(fetchHtml(files, step, replies[n]), LAMBDA x : x)
       IN fetchStatesRunFrom(d.files, replies, n + 1,
            [log |-> run.log
                       \o (IF isFirstRequest THEN <<>>
                           ELSE <<Delay(STATE_DELAY)>>)
                       \o <<d.event>>,
             got |-> Append(run.got, d.got)])

fetchStatesRun(files, replies) ==
  LET run == With(fetchStatesRunFrom(files, replies, 1, NoRun), LAMBDA x : x)
      outcomeOf(s) == [k \in 1..Len(STATE_TARGETS[s].statutes) |->
                         pageOutcome(run.got[StepIndex(StateSteps, s, k)])]
  IN [files |-> run.files, log |-> run.log, got |-> run.got,
      seeds |-> [s \in 1..Len(STATE_TARGETS) |->
                   processState(STATE_TARGETS[s], outcomeOf(s))]]

\* processStatute of the LawServer fetcher for a statute whose mapping has
\* one chapter URL and whose page is itself the section (it lists no section
\* links): the page is downloaded as the listing and, after a delay, once
\* more as the section; requestCount starts at 0 in every statute
processStatute(files, state, statuteIndex, listingReply, sectionReply) ==
  LET url == <<state, statuteIndex>>
      listing == With(fetchHtmlLawServer(files, url, listingReply),
                      LAMBDA x : x)
      section == With(fetchHtmlLawServer(listing.files, url, sectionReply),
                      LAMBDA x : x)
      provisions ==
        IF section.got # "parses" THEN <<>>
        ELSE <<[document_index |-> statuteIndex - 1,
                jurisdiction |-> STATE_TARGETS[state].code,
                section_number |-> <<"1">>,
                text |-> <<>>,
                order_index |-> 1]>>
  IN [files |-> section.files,
      log |-> <<listing.event, Delay(LAWSERVER_DELAY), section.event>>,
      got |-> <<section.got>>,
      provisions |-> provisions]

\* The LawServer fetcher, main and processState: the statutes of every state
\* in turn from the n-th on; replies[n] holds the answers to the two
\* downloads of the n-th statute
RECURSIVE fetchLawServerRunFrom(_, _, _, _)
fetchLawServerRunFrom(files, replies, n, run) ==
  IF n > Len(StateSteps) THEN [files |-> files] @@ run
  ELSE LET step == StateSteps[n]
           p == With(processStatute(files, step[1], step[2],
                                    replies[n][1], replies[n][2]),
                     LAMBDA x : x)
       IN fetchLawServerRunFrom(p.files, replies, n + 1,
            [log |-> run.log \o p.log,
             got |-> run.got \o p.got,
             provisions |-> run.provisions \o p.provisions])

fetchLawServerRun(files, replies) ==
  LET run == With(fetchLawServerRunFrom(files, replies, 1,
                     [provisions |-> <<>>] @@ NoRun), LAMBDA x : x)
      documents(s) == [k \in 1..Len(STATE_TARGETS[s].statutes) |->
                         [jurisdiction |-> STATE_TARGETS[s].code,
                          title |-> STATE_TARGETS[s].statutes[k].name,
                          identifier |-> STATE_TARGETS[s].statutes[k].citation,
                          short_name |-> STATE_TARGETS[s].statutes[k].shortName]]
  IN [files |-> run.files, log |-> run.log, got |-> run.got,
      seeds |-> [s \in 1..Len(STATE_TARGETS) |->
                   [documents |-> documents(s),
                    provisions |->
                      SelectSeq(run.provisions,
                                LAMBDA prov : prov.jurisdiction
                                                = STATE_TARGETS[s].code)]]]

\* The cache files a script finds: none, or a file written by an earlier
\* run a day less than, exactly, or a day more than thirty days ago
FoundEntries ==
  {NoEntry} \cup {Entry(age, "parses") :
                    age \in {CACHE_TTL - 1, CACHE_TTL, CACHE_TTL + 1}}

FederalKeys == {FEDERAL_TARGETS[FederalSteps[n][1]].sections[FederalSteps[n][2]] :
                  n \in 1..Len(FederalSteps)}
StateKeys == Range(StateSteps)

InitCache ==
  /\ \E script \in {"fetch-uscode", "fetch-state-laws", "fetch-states-lawserver"} :
       \E files \in [IF script = "fetch-uscode" THEN FederalKeys ELSE StateKeys
                       -> FoundEntries] :
         db = [script |-> script, files |-> files]
  /\ call = NoCall
  /\ response = NoResponse
  /\ issued = <<>>

\* The answers to the two downloads of a statute's page; the second is not
\* asked for when the first was cached
LawServerReplies ==
  {<<HttpError, HttpError>>, <<Throws, Ok("parses")>>,
   <<Ok("parses"), Throws>>, <<Ok("unparsed"), HttpError>>}

FetchUscode ==
  /\ call = NoCall
  /\ db.script = "fetch-uscode"
  /\ \E replies \in [1..Len(FederalSteps) -> XmlReplies] :
       LET run == With(fetchUscodeRun(db.files, replies), LAMBDA x : x)
       IN /\ call' = [tool |-> "fetch-uscode", files |-> db.files]
          /\ db' = [db EXCEPT !.files = run.files]
          /\ response' = [kind |-> "ok", seeds |-> run.seeds, got |-> run.got]
          /\ issued' = run.log

FetchStateLaws ==
  /\ call = NoCall
  /\ db.script = "fetch-state-laws"
  /\ \E replies \in [1..Len(StateSteps) -> HtmlReplies] :
       LET run == With(fetchStatesRun(db.files, replies), LAMBDA x : x)
       IN /\ call' = [tool |-> "fetch-state-laws", files |-> db.files]
          /\ db' = [db EXCEPT !.files = run.files]
          /\ response' = [kind |-> "ok", seeds |-> run.seeds, got |-> run.got]
          /\ issued' = run.log

FetchLawServer ==
  /\ call = NoCall
  /\ db.script = "fetch-states-lawserver"
  /\ \E replies \in [1..Len(StateSteps) -> LawServerReplies] :
       LET run == With(fetchLawServerRun(db.files, replies), LAMBDA x : x)
       IN /\ call' = [tool |-> "fetch-states-lawserver", files |-> db.files]
          /\ db' = [db EXCEPT !.files = run.files]
          /\ response' = [kind |-> "ok", seeds |-> run.seeds, got |-> run.got]
          /\ issued' = run.log

NextCache == FetchUscode \/ FetchStateLaws \/ FetchLawServer \/ Respond

SpecCache == InitCache /\ [][NextCache]_vars

----------------------------------------------------------------------------
(* The ingest scripts, one statement at a time                             *)
(*                                                                         *)
(* Both scripts run all their statements inside one db.transaction().  In  *)
(* this part db is the committed store, which is what every other          *)
(* connection reads; call.working is the store as the transaction's own    *)
(* connection sees it, call.done the number of seed rows it has handled.   *)

MaxStoreDocuments == 4   \* most documents in the store of the ingest scripts
MaxClassified == 2       \* most rows of state_requirements

\* The seed files of the federal ingest: those of a fetch that lost at most
\* one section
IngestSeedFiles == {seed \in FederalSeeds : Len(seed.provisions) >= 3}

seedRows(seed) == Len(seed.documents) + Len(seed.provisions)

\* The first n rows of a seed file: its documents come before its provisions
seedPrefix(seed, n) ==
  [documents |-> Take(seed.documents, n),
   provisions |-> Take(seed.provisions, Max(0, n - Len(seed.documents)))]

\* What the store holds after an exception left the transaction function
rollback_KeepsWrites(committed, working) == working
rollback(committed, working) == committed

\* classifications.json: a requirement names its jurisdiction, its category
\* and the short name and section of its law
Requirement(jurisdiction, category, law_short_name) ==
  [jurisdiction |-> jurisdiction, category |-> category,
   subcategory |-> <<"s">>, law_short_name |-> law_short_name,
   section_number |-> <<"§", " ", "1">>]

ClassificationRequirements ==
  {Requirement("US-FED", <<"b">>, <<"c", "p">>),
   Requirement("US-CA", <<"b">>, <<"c", "p">>),
   Requirement("US-FED", <<"p">>, <<"c">>),
   Requirement("US-FED", <<"b">>, <<"x">>),
   Requirement("US-FED", <<"z">>, <<"c", "b">>)}

ClassificationSeeds ==
  UNION {[1..n -> ClassificationRequirements] : n \in 1..MaxClassified}

\* findCategory: the ids of the categories with the requirement's category
\* and subcategory
findCategory(d, req) ==
  {c \in 1..Len(d.requirement_categories) :
     /\ d.requirement_categories[c].category = req.category
     /\ d.requirement_categories[c].subcategory = req.subcategory}

\* findDocument, and findDocumentFuzzy when it finds nothing: the ids of the
\* documents the statement can return.  Neither statement has an ORDER BY,
\* so which of several matching rows comes first is SQLite's choice.
findDocument(d, req) ==
  LET exact == {id \in DocIds(d) :
                  d.legal_documents[id].short_name = req.law_short_name}
      fuzzy == {id \in DocIds(d) :
                  \/ Like(d.legal_documents[id].short_name,
                          req.law_short_name \o <<"%">>, NoEscape)
                  \/ Like(req.law_short_name,
                          d.legal_documents[id].short_name \o <<"%">>, NoEscape)}
  IN IF exact # {} THEN exact ELSE fuzzy

\* findProvision: the ids of the document's provisions with the
\* requirement's section number, or 0 (NULL) when there is none
findProvision(d, id, req) ==
  LET found == {p \in ProvIds(d) :
                  /\ d.legal_provisions[p].document_id = id
                  /\ d.legal_provisions[p].section_number = req.section_number}
  IN IF found = {} THEN {0} ELSE found

InitIngest ==
  /\ db = [legal_documents |-> <<>>, legal_provisions |-> <<>>,
           requirement_categories |-> CompareCategories,
           state_requirements |-> <<>>]
  /\ call = NoCall
  /\ response = NoResponse
  /\ issued = <<>>

IsIngest == call.tool \in {"ingest:federal", "ingest:classify"}

IngestRows ==
  IF call.tool = "ingest:federal" THEN seedRows(call.seed)
  ELSE Len(call.requirements)

\* ingest:federal, main up to the call of ingestAll
BeginIngestFederal ==
  /\ call = NoCall
  /\ \E seed \in IngestSeedFiles :
       /\ Len(db.legal_documents) + Len(seed.documents) <= MaxStoreDocuments
       /\ call' = [tool |-> "ingest:federal", seed |-> seed, done |-> 0,
                   working |-> db]
  /\ response' = NoResponse
  /\ UNCHANGED <<db, issued>>

\* ingestAll of ingest:federal: the next document or provision of the seed
\* file is inserted
InsertSeedRow ==
  /\ call.tool = "ingest:federal"
  /\ call.done < seedRows(call.seed)
  /\ call' = [call EXCEPT
                !.done = @ + 1,
                !.working = ingestAll(db, <<seedPrefix(call.seed, call.done + 1)>>)]
  /\ UNCHANGED <<db, response, issued>>

\* ingest:classify, main up to the call of ingestAll
BeginIngestClassify ==
  /\ call = NoCall
  /\ \E requirements \in ClassificationSeeds :
       /\ Len(db.state_requirements) + Len(requirements) <= MaxClassified
       /\ call' = [tool |-> "ingest:classify", requirements |-> requirements,
                   done |-> 0, working |-> db]
  /\ response' = NoResponse
  /\ UNCHANGED <<db, issued>>

\* ingestAll of ingest:classify: the next requirement is skipped when its
\* category or its document is not found, and inserted otherwise
InsertRequirement ==
  /\ call.tool = "ingest:classify"
  /\ call.done < Len(call.requirements)
  /\ LET req == call.requirements[call.done + 1]
         d == call.working
     IN IF findCategory(d, req) = {} \/ findDocument(d, req) = {}
          THEN call' = [call EXCEPT !.done = @ + 1]
        ELSE \E cat \in findCategory(d, req), doc \in findDocument(d, req) :
               \E prov \in findProvision(d, doc, req) :
                 call' = [call EXCEPT
                   !.done = @ + 1,
                   !.working.state_requirements =
                      Append(@, [jurisdiction |-> req.jurisdiction,
                                 category_id |-> cat,
                                 document_id |-> doc,
                                 provision_id |-> prov,
                                 summary_text |-> <<"x">>])]
  /\ UNCHANGED <<db, response, issued>>

\* A statement or the reading of a seed file throws inside ingestAll: the
\* transaction is rolled back and the script ends with the exception
IngestThrows ==
  /\ IsIngest
  /\ call.done < IngestRows
  /\ db' = rollback(db, call.working)
  /\ call' = NoCall
  /\ response' = [kind |-> "error", tool |-> call.tool, done |-> call.done]
  /\ UNCHANGED issued

\* ingestAll returns: the transaction commits
CommitIngest ==
  /\ IsIngest
  /\ call.done = IngestRows
  /\ db' = call.working
  /\ call' = NoCall
  /\ response' = [kind |-> "ok", tool |-> call.tool, done |-> call.done]
  /\ UNCHANGED issued

NextIngest ==
  \/ BeginIngestFederal
  \/ InsertSeedRow
  \/ BeginIngestClassify
  \/ InsertRequirement
  \/ IngestThrows
  \/ CommitIngest

SpecIngest == InitIngest /\ [][NextIngest]_vars

----------------------------------------------------------------------------
(* The HTTP server: sessions map, request handlers, transport close events *)
(*                                                                         *)
(* In this part db holds the sessions map and the transports created so    *)
(* far.  A transport records its sessionId (0 while undefined), whether it *)
(* has been closed, whether the handler has assigned its onclose, and how  *)
(* far the handler of its first request has come: every await of the       *)
(* handler is a point where other requests and close events run.           *)

MaxTransports == 2   \* most transports the server creates

\* new StreamableHTTPServerTransport(...), before server.connect resolves
NewTransport(initialize) ==
  [sessionId |-> 0, closed |-> FALSE, onclose |-> FALSE,
   initialize |-> initialize, pc |-> "connect"]

\* sessions.delete(sessionId)
sessionsDelete(sessions, sessionId) ==
  {s \in sessions : s.sessionId # sessionId}

\* sessions.set(sessionId, transport)
sessionsSet(sessions, sessionId, t, transports) ==
  sessionsDelete(sessions, sessionId)
    \cup {[sessionId |-> sessionId, transport |-> t]}

InitHttp ==
  /\ db = [sessions |-> {}, transports |-> <<>>]
  /\ call = [tool |-> "http"]
  /\ response = NoResponse
  /\ issued = <<>>

\* A request to /mcp without a session id the map knows: the handler makes a
\* transport and awaits server.connect
CreateTransport ==
  /\ call.tool = "http"
  /\ Len(db.transports) < MaxTransports
  /\ \E initialize \in BOOLEAN :
       db' = [db EXCEPT !.transports = Append(@, NewTransport(initialize))]
  /\ UNCHANGED <<call, response, issued>>

\* server.connect has resolved: the handler assigns transport.onclose and
\* calls transport.handleRequest, which it awaits
SetOnclose ==
  /\ call.tool = "http"
  /\ \E t \in 1..Len(db.transports) :
       /\ db.transports[t].pc = "connect"
       /\ db' = [db EXCEPT !.transports[t].onclose = TRUE,
                           !.transports[t].pc = "handleRequest"]
  /\ UNCHANGED <<call, response, issued>>

\* handleRequest of an open transport generates the session id when the
\* request is an initialize request
AssignSessionId ==
  /\ call.tool = "http"
  /\ \E t \in 1..Len(db.transports) :
       /\ db.transports[t].pc = "handleRequest"
       /\ db.transports[t].initialize
       /\ ~db.transports[t].closed
       /\ db.transports[t].sessionId = 0
       /\ db' = [db EXCEPT !.transports[t].sessionId = t]
  /\ UNCHANGED <<call, response, issued>>

\* handleRequest has resolved: the handler registers the transport when it
\* has a session id
RegisterSession ==
  /\ call.tool = "http"
  /\ \E t \in 1..Len(db.transports) :
       /\ db.transports[t].pc = "handleRequest"
       /\ db.transports[t].initialize => db.transports[t].sessionId # 0
                                          \/ db.transports[t].closed
       /\ db' = [db EXCEPT
            !.transports[t].pc = "done",
            !.sessions = IF db.transports[t].sessionId # 0
                           THEN sessionsSet(@, db.transports[t].sessionId, t,
                                            db.transports)
                         ELSE @]
  /\ UNCHANGED <<call, response, issued>>

\* A transport closes (the client ends the session or the connection goes
\* away): its onclose, when the handler has assigned it, deletes the
\* transport's session id from the map
TransportCloses ==
  /\ call.tool = "http"
  /\ \E t \in 1..Len(db.transports) :
       /\ ~db.transports[t].closed
       /\ db' = [db EXCEPT
            !.transports[t].closed = TRUE,
            !.sessions = IF db.transports[t].onclose
                            /\ db.transports[t].sessionId # 0
                           THEN sessionsDelete(@, db.transports[t].sessionId)
                         ELSE @]
  /\ UNCHANGED <<call, response, issued>>

\* A request with a session id of the map is handed to its transport
SessionRequest ==
  /\ call.tool = "http"
  /\ \E s \in db.sessions :
       response' = [kind |-> "handled", sessionId |-> s.sessionId,
                    closed |-> db.transports[s.transport].closed]
  /\ UNCHANGED <<db, call, issued>>

NextHttp ==
  \/ CreateTransport
  \/ SetOnclose
  \/ AssignSessionId
  \/ RegisterSession
  \/ TransportCloses
  \/ SessionRequest

SpecHttp == InitHttp /\ [][NextHttp]_vars

----------------------------------------------------------------------------
(* Claims on the search tools *)

IsSearchCall == call.tool \in {"search_legislation", "build_legal_stance"}

CallTokens == TokenRuns(Trim(call.query), FtsTokenChars, <<>>)

\* C1: the primary (AND) query is the first query issued to the index; the
\* fallback (OR) query is issued only second and only after the primary
\* query returned no row; when the primary query returned a row, it is the
\* only query issued and the tool's results are exactly its rows.
C1_PrimaryBeforeFallback ==
  (IsSearchCall /\ issued # <<>>) =>
    /\ issued[1].stmt = "primary"
    /\ issued[1].query = [op |-> "AND", tokens |-> CallTokens]
    /\ Len(issued) <= 2
    /\ Len(issued) = 2 =>
         /\ issued[2].stmt = "fallback"
         /\ issued[2].query = [op |-> "OR", tokens |-> CallTokens]
         /\ issued[1].rows = <<>>
    /\ issued[1].rows # <<>> =>
         /\ Len(issued) = 1
         /\ response.results = issued[1].rows

\* A search whose AND query found a row although the OR query would have
\* found more rows
C1_Witness ==
  /\ call.tool = "search_legislation"
  /\ Len(issued) = 1
  /\ issued[1].rows # <<>>
  /\ Len(runFtsSearch(db, [op |-> "OR", tokens |-> CallTokens],
                      call.jurisdiction, clampLimit(call.limit)))
       > Len(issued[1].rows)

\* C2: a query that is not blank but has no usable token is answered with an
\* empty result set, and no query is issued to the full-text index.
C2_NoTokenNoQuery ==
  (IsSearchCall /\ response.kind = "ok" /\ CallTokens = <<>>) =>
    /\ response.results = <<>>
    /\ issued = <<>>
    /\ call.tool = "build_legal_stance" =>
         response.requirement_matches = <<>> /\ response.total_results = 0

\* Such a query answered over a store that holds provisions
C2_Witness ==
  /\ IsSearchCall
  /\ response.kind = "ok"
  /\ CallTokens = <<>>
  /\ Trim(call.query) # <<>>
  /\ db.legal_provisions # <<>>

----------------------------------------------------------------------------
(* Claims on get_provision *)

\* A get_provision call that names a law and a section
IsSectionCall ==
  /\ call.tool = "get_provision"
  /\ call.law_identifier # <<>> \/ call.short_name # <<>>
  /\ call.section_number # <<>>

\* The provisions of the requested jurisdiction and law
ScopeOfCall == {p \in ProvIds(db) : InScope(db, call, p)}

\* Those of them whose stored section number is the requested one
ExactOfCall ==
  {p \in ScopeOfCall : db.legal_provisions[p].section_number = call.section_number}

Ran(kind) == \E i \in 1..Len(issued) : issued[i].stmt = kind

\* C3: when a provision in scope has the requested section number, the
\* result is exactly the set of provisions in scope with that section number,
\* and the hierarchical statement runs only after the exact statement
\* returned nothing.
C3_ExactMatchFirst ==
  IsSectionCall =>
    /\ ExactOfCall # {} =>
         Range(response.results) = ExactOfCall /\ ~Ran("fallback")
    /\ Ran("fallback") =>
         /\ Len(issued) = 2
         /\ issued[1] = Statement("exact", <<>>)
         /\ issued[2].stmt = "fallback"

\* The requested section is stored, and so is a subsection or parent of it
\* that the hierarchical statement would have returned as well
C3_Witness ==
  /\ IsSectionCall
  /\ ExactOfCall # {}
  /\ Range(response.results) = ExactOfCall
  /\ \E p \in ScopeOfCall \ ExactOfCall :
       \/ IsPrefix(call.section_number, db.legal_provisions[p].section_number)
       \/ IsPrefix(db.legal_provisions[p].section_number, call.section_number)

\* The provisions in scope that are a parent or a child of the request by
\* the prefix relation on section numbers
PrefixRelatedOfCall ==
  {p \in ScopeOfCall :
     \/ IsPrefix(call.section_number, db.legal_provisions[p].section_number)
     \/ IsPrefix(db.legal_provisions[p].section_number, call.section_number)}

\* C4: when no provision in scope has the requested section number, a
\* provision is returned if and only if the request is a prefix of its stored
\* section number or its stored section number is a prefix of the request.
C4_PrefixOnly ==
  (IsSectionCall /\ ExactOfCall = {}) =>
    Range(response.results) = PrefixRelatedOfCall

\* The rows the statement that produced the answer selects
SelectedOfCall ==
  IF call.section_number = <<>> THEN ScopeOfCall
  ELSE IF ExactOfCall # {} THEN ExactOfCall
  ELSE {p \in ScopeOfCall :
          fallbackMatch(call.section_number, db.legal_provisions[p].section_number)}

\* C5: get_provision returns every selected provision once, none dropped,
\* in non-decreasing order_index, whichever of its three statements answers.
C5_AllRowsInOrder ==
  (call.tool = "get_provision"
     /\ (call.law_identifier # <<>> \/ call.short_name # <<>>)) =>
    /\ Range(response.results) = SelectedOfCall
    /\ Len(response.results) = Cardinality(SelectedOfCall)
    /\ \A i, j \in 1..Len(response.results) :
         i < j => db.legal_provisions[response.results[i]].order_index
                    <= db.legal_provisions[response.results[j]].order_index

\* Two provisions returned by the hierarchical statement in the opposite of
\* their insertion order
C5_Witness ==
  /\ IsSectionCall
  /\ Ran("fallback")
  /\ Len(response.results) = 2
  /\ response.results[1] > response.results[2]
  /\ db.legal_provisions[response.results[1]].order_index
       < db.legal_provisions[response.results[2]].order_index

----------------------------------------------------------------------------
(* Claims on validate_citation *)

IsCitationCall ==
  /\ call # NoCall
  /\ call.tool = "validate_citation"
  /\ response # NoResponse
  /\ response.kind = "ok"

CitationOfCall == Trim(call.citation)
PatternOfCall == <<"%">> \o EscapeWildcards(CitationOfCall) \o <<"%">>

\* The provisions the strategies look at, for the document that was returned
BaseOfCall ==
  LET doc == db.legal_documents[response.matched_document[1]]
  IN provBase(db, doc.identifier, doc.short_name)

DirectHitOfCall == provLike(db, BaseOfCall, PatternOfCall) # {}

FuzzyHitOfCall ==
  LET ref == sectionMatch(CitationOfCall)
  IN /\ ref # <<>>
     /\ provLike(db, BaseOfCall, <<"%">> \o EscapeWildcards(ref[1]) \o <<"%">>) # {}

\* C6: once a document matched, the tier reported is the highest one that
\* succeeds: section_exact when the citation itself is found in a section
\* number, else section_fuzzy when the number extracted from the citation is,
\* else document_only; none is reported only when no document matched.
C6_TierPrecedence ==
  IsCitationCall =>
    IF response.matched_document = <<>>
    THEN response.match_quality = "none"
    ELSE /\ DirectHitOfCall => response.match_quality = "section_exact"
         /\ ~DirectHitOfCall /\ FuzzyHitOfCall
              => response.match_quality = "section_fuzzy"
         /\ ~DirectHitOfCall /\ ~FuzzyHitOfCall
              => response.match_quality = "document_only"

\* Both the citation and the number extracted from it are found in a section
\* number, and the answer is section_exact
C6_Witness ==
  /\ IsCitationCall
  /\ response.matched_document # <<>>
  /\ DirectHitOfCall
  /\ FuzzyHitOfCall
  /\ response.match_quality = "section_exact"

\* C7: valid = false, match_quality = none and matched_document = null hold
\* together or not at all, and then matched_provision is null too.
C7_InvalidIffNoneIffNoDocument ==
  IsCitationCall =>
    /\ (response.valid = FALSE) <=> (response.match_quality = "none")
    /\ (response.match_quality = "none") <=> (response.matched_document = <<>>)
    /\ response.valid = FALSE => response.matched_provision = <<>>

\* A citation that no document matches, against a store that holds documents
\* and provisions: the answer is invalid, none, with no document
C7_Witness ==
  /\ IsCitationCall
  /\ ProvIds(db) # {}
  /\ response.valid = FALSE
  /\ response.match_quality = "none"
  /\ response.matched_document = <<>>

\* C8: the answer is valid exactly when some document's identifier, short
\* name or title contains the trimmed citation as a substring (and is of the
\* requested jurisdiction when one is given).
C8_ValidIffSubstring ==
  IsCitationCall =>
    (response.valid = TRUE <=>
       \E i \in DocIds(db) :
         LET doc == db.legal_documents[i] IN
         /\ \/ Contains(doc.identifier, CitationOfCall)
            \/ Contains(doc.short_name, CitationOfCall)
            \/ Contains(doc.title, CitationOfCall)
         /\ call.jurisdiction # "" => doc.jurisdiction = call.jurisdiction)

\* C9: with section_exact or section_fuzzy the provision returned is one of
\* the document returned.
C9_ProvisionOfMatchedDocument ==
  IsCitationCall /\ response.match_quality \in {"section_exact", "section_fuzzy"} =>
    /\ response.matched_provision # <<>>
    /\ db.legal_provisions[response.matched_provision[1]].document_id
         = response.matched_document[1]

\* C10: with document_only the provision returned is the one of least
\* order_index among the provisions of the document returned, and null when
\* that document has none.
C10_FirstProvisionOfDocument ==
  IsCitationCall /\ response.match_quality = "document_only" =>
    LET own == {p \in ProvIds(db) :
                  db.legal_provisions[p].document_id = response.matched_document[1]}
    IN IF own = {}
       THEN response.matched_provision = <<>>
       ELSE /\ response.matched_provision # <<>>
            /\ response.matched_provision[1] \in provFirst(db, own)

----------------------------------------------------------------------------
(* Claims on request validation *)

\* The jurisdiction codes a call names: its jurisdiction, or the members of
\* its jurisdictions list (the list ["all"] names none)
RequestedJurisdictions ==
  IF call = NoCall THEN {}
  ELSE IF "jurisdictions" \in DOMAIN call
    THEN (IF call.jurisdictions = <<"all">> THEN {} ELSE Range(call.jurisdictions))
  ELSE IF "jurisdiction" \in DOMAIN call /\ call.jurisdiction # ""
    THEN {call.jurisdiction}
  ELSE {}

\* C11: a call that names a jurisdiction code outside the jurisdiction table
\* is answered with a validation error, never with an ordinary result.
C11_UnknownJurisdictionFails ==
  (response # NoResponse /\ RequestedJurisdictions \ JURISDICTIONS # {})
    => response = ValidationError

----------------------------------------------------------------------------
(* Claims on compare_requirements *)

IsCompareCall ==
  /\ call # NoCall
  /\ call.tool = "compare_requirements"
  /\ response # NoResponse
  /\ response.kind = "ok"

ComparedRows == Range(response.results)
JurisdictionOfRow(r) == db.state_requirements[r].jurisdiction

\* The classified requirements of the requested category and subcategory
EligibleOfCall ==
  {r \in Classified(db) :
     /\ CategoryOf(db, r).category = call.category
     /\ call.subcategory # <<>> => CategoryOf(db, r).subcategory = call.subcategory}

\* C12: with the list ["all"] no row is left out on account of its
\* jurisdiction (the eligible rows are all returned, up to the statement's
\* limit); with any other list only rows of listed jurisdictions are returned.
C12_AllIsTheOnlyWildcard ==
  IsCompareCall =>
    /\ ComparedRows \subseteq EligibleOfCall
    /\ IF call.jurisdictions = <<"all">>
       THEN ComparedRows = EligibleOfCall \/ Len(response.results) = COMPARE_LIMIT
       ELSE \A r \in ComparedRows : JurisdictionOfRow(r) \in Range(call.jurisdictions)

\* The list ["all"] against requirements of two states: both are returned
C12_Witness ==
  /\ IsCompareCall
  /\ call.jurisdictions = <<"all">>
  /\ \E r, q \in ComparedRows : JurisdictionOfRow(r) # JurisdictionOfRow(q)

\* (jurisdiction, subcategory) of row r is not after that of row q
CompareKeyLeq(r, q) ==
  \/ JurisdictionRank(JurisdictionOfRow(r)) < JurisdictionRank(JurisdictionOfRow(q))
  \/ /\ JurisdictionOfRow(r) = JurisdictionOfRow(q)
     /\ \E i, j \in 1..Len(SubcategoryOrder) :
          /\ i <= j
          /\ SubcategoryOrder[i] = CategoryOf(db, r).subcategory
          /\ SubcategoryOrder[j] = CategoryOf(db, q).subcategory

\* C13: every returned row has the requested category and, when one is
\* given, the requested subcategory; the rows ascend by jurisdiction and,
\* within a jurisdiction, by subcategory.
C13_CategoryAndOrder ==
  IsCompareCall =>
    /\ \A r \in ComparedRows :
         /\ CategoryOf(db, r).category = call.category
         /\ call.subcategory # <<>>
              => CategoryOf(db, r).subcategory = call.subcategory
    /\ \A i, j \in 1..Len(response.results) :
         i < j => CompareKeyLeq(response.results[i], response.results[j])

\* Two rows of one state with different subcategories, inserted in the
\* other order, are returned in the order of their subcategories
C13_Witness ==
  /\ IsCompareCall
  /\ \E i, j \in 1..Len(response.results) :
       /\ i < j
       /\ response.results[i] > response.results[j]
       /\ JurisdictionOfRow(response.results[i]) = JurisdictionOfRow(response.results[j])
       /\ CategoryOf(db, response.results[i]).subcategory
            # CategoryOf(db, response.results[j]).subcategory

\* C14: every listed jurisdiction that has a classified requirement of the
\* requested category and subcategory has at least one row in the result.
C14_EveryListedJurisdictionPresent ==
  IsCompareCall =>
    \A j \in Range(call.jurisdictions) :
      (\E r \in EligibleOfCall : JurisdictionOfRow(r) = j)
        => \E r \in ComparedRows : JurisdictionOfRow(r) = j

----------------------------------------------------------------------------
(* Claims on the hints of get_provision *)

IsProvisionCall ==
  /\ call # NoCall
  /\ call.tool = "get_provision"
  /\ response # NoResponse

\* A law is named and no document of the requested jurisdiction matches it
NamesNoLawOfCall ==
  /\ IsProvisionCall
  /\ call.law_identifier # <<>> \/ call.short_name # <<>>
  /\ \A i \in DocIds(db) :
       db.legal_documents[i].jurisdiction = call.jurisdiction
         => ~buildDocumentFilter(call, db.legal_documents[i])

\* The answer is an empty result with a hint that names a law of the
\* requested jurisdiction
AnswersWithAvailableLaws ==
  /\ response.kind = "ok"
  /\ response.results = <<>>
  /\ Len(response.hints) = 1
  /\ response.hints[1].available # <<>>
  /\ \A k \in 1..Len(response.hints[1].available) :
       LET doc == db.legal_documents[response.hints[1].available[k]]
       IN doc.jurisdiction = call.jurisdiction /\ doc.short_name # <<>>

\* C15 as stated: whenever the law named matches nothing in the
\* jurisdiction, the answer is an empty result with a hint naming a short
\* name available in that jurisdiction.
C15_HintNamesAlternative ==
  NamesNoLawOfCall => AnswersWithAvailableLaws

\* C15 amended: the same, for a jurisdiction that holds at least one document.
C15_HintNamesAlternativeIfAny ==
  (/\ NamesNoLawOfCall
   /\ \E i \in DocIds(db) : db.legal_documents[i].jurisdiction = call.jurisdiction)
    => AnswersWithAvailableLaws

\* A name that matches none of the laws of a jurisdiction that has laws
C15_Witness ==
  /\ NamesNoLawOfCall
  /\ \E i \in DocIds(db) : db.legal_documents[i].jurisdiction = call.jurisdiction
  /\ AnswersWithAvailableLaws

----------------------------------------------------------------------------
(* Claims on the pipeline *)

\* Every provision row carries the jurisdiction of the document it belongs to
Denormalized(d) ==
  \A p \in ProvIds(d) :
    d.legal_provisions[p].jurisdiction = DocOf(d, p).jurisdiction

\* C16: in a store produced by the fetchers and the ingest, every provision
\* carries the jurisdiction of its document, and every provision that
\* get_provision returns carries the requested jurisdiction.
C16_ReturnedJurisdictionIsRequested ==
  /\ Denormalized(db)
  /\ (IsProvisionCall /\ response.kind = "ok") =>
       \A k \in 1..Len(response.results) :
         db.legal_provisions[response.results[k]].jurisdiction
           = call.jurisdiction

\* A state's provisions are returned from a store that also holds federal ones
C16_Witness ==
  /\ IsProvisionCall
  /\ response.kind = "ok"
  /\ call.jurisdiction = "US-NY"
  /\ Len(response.results) > 0
  /\ \E p \in ProvIds(db) : db.legal_provisions[p].jurisdiction = "US-FED"

----------------------------------------------------------------------------
(* Claims on the short name of get_provision *)

\* The provisions of the documents of the requested jurisdiction whose short
\* name is the requested one or begins with it, whatever the case of letters
NamedByShortName ==
  {p \in ProvIds(db) :
     /\ DocOf(db, p).jurisdiction = call.jurisdiction
     /\ IsPrefix(LowerStr(call.short_name), LowerStr(DocOf(db, p).short_name))}

\* C17: a call with a short name and no law identifier selects every document
\* of the requested jurisdiction whose short name equals the request or
\* starts with it, case-insensitively: all provisions of these documents are
\* returned when no section is asked for, and those with the requested
\* section number when one is.
C17_ShortNamePrefixSelects ==
  (/\ IsProvisionCall
   /\ call.law_identifier = <<>>
   /\ call.short_name # <<>>) =>
    /\ response.kind = "ok"
    /\ \A p \in NamedByShortName :
         (\/ call.section_number = <<>>
          \/ db.legal_provisions[p].section_number = call.section_number)
           => p \in Range(response.results)

\* A partial name in the other case retrieves the provisions of two laws
C17_Witness ==
  /\ IsProvisionCall
  /\ call.law_identifier = <<>>
  /\ call.short_name = <<"C">>
  /\ call.section_number = <<>>
  /\ \E p, q \in Range(response.results) :
       /\ p \in NamedByShortName
       /\ q \in NamedByShortName
       /\ db.legal_provisions[p].document_id # db.legal_provisions[q].document_id
       /\ DocOf(db, p).short_name # DocOf(db, q).short_name

----------------------------------------------------------------------------
(* Claims on the parsers and the batch of fetch:states *)

IsParseCall ==
  /\ call # NoCall
  /\ call.tool = "simple-html"
  /\ response # NoResponse

IsFetchCall ==
  /\ call # NoCall
  /\ call.tool = "fetch:states"
  /\ response # NoResponse

\* The k-th statute of state s met a failure of its parser: the registry
\* does not know the parser, or the parser failed inside
ParserFailedAt(s, k) ==
  /\ call.runs[s][k].kind = "page"
  /\ call.runs[s][k].parserType \notin ParserNames \/ call.runs[s][k].fails

\* The provisions the page of the k-th statute of state s holds for its parser
ExtractedAt(s, k) ==
  IF call.runs[s][k].kind = "page" /\ ~ParserFailedAt(s, k)
  THEN IF call.runs[s][k].parserType = "legislature"
       THEN legislatureProvisions(call.runs[s][k].text, call.runs[s][k].structured)
       ELSE simpleProvisions(call.runs[s][k].text)
  ELSE <<>>

ProvisionsAt(s, k) ==
  SelectSeq(response.seeds[s].provisions, LAMBDA p : p.document_index = k - 1)

\* C18: a parser that fails inside returns the empty list and does not
\* raise; in a run of fetch:states a page whose parser fails or yields
\* nothing does not stop the run: every state gets its seed file, every
\* statute its document, and every other page its provisions.
C18_ParserFailureNeverAborts ==
  /\ IsParseCall =>
       /\ response.kind = "returned"
       /\ call.fails => response.provisions = <<>>
  /\ IsFetchCall =>
       /\ response.kind = "ok"
       /\ Len(response.seeds) = Len(STATE_TARGETS)
       /\ \A s \in 1..Len(STATE_TARGETS) :
            /\ Len(response.seeds[s].documents) = Len(STATE_TARGETS[s].statutes)
            /\ \A k \in 1..Len(STATE_TARGETS[s].statutes) :
                 /\ Len(ProvisionsAt(s, k)) = Len(ExtractedAt(s, k))
                 /\ \A i \in 1..Len(ExtractedAt(s, k)) :
                      ProvisionsAt(s, k)[i].section_number
                        = ExtractedAt(s, k)[i].sectionNumber

\* The parser fails on the first statute of the first state; the statute
\* after it and the state after it have their provisions in the seed files
C18_Witness ==
  /\ IsFetchCall
  /\ ParserFailedAt(1, 1)
  /\ ProvisionsAt(1, 1) = <<>>
  /\ ProvisionsAt(1, 2) # <<>>
  /\ ProvisionsAt(2, 1) # <<>>

\* C19: a page whose normalized text is not empty gives at least one
\* provision.
C19_TextGivesProvision ==
  (IsParseCall /\ ~call.fails /\ call.text # <<>>) =>
    /\ response.kind = "returned"
    /\ Len(response.provisions) >= 1

----------------------------------------------------------------------------
(* Claims on the wildcards of the hierarchical statement *)

\* a begins b, letters compared without regard to case and every character
\* standing for itself
BeginsLiterally(a, b) == IsPrefix(LowerStr(a), LowerStr(b))

\* C20: the hierarchical statement takes '%', '_' and the escape character in
\* the requested and in the stored section number literally: it returns a
\* provision only when one of the two section numbers begins the other,
\* character by character.
C20_WildcardsAreLiteral ==
  (IsSectionCall /\ Ran("fallback")) =>
    \A k \in 1..Len(response.results) :
      LET stored == db.legal_provisions[response.results[k]].section_number
      IN \/ BeginsLiterally(call.section_number, stored)
         \/ BeginsLiterally(stored, call.section_number)

----------------------------------------------------------------------------
(* Claims on the cap of the regex fallback *)

\* C21: every provision the regex fallback emits has a text of at most
\* 10,000 characters, be it a slice between two markers, the last slice or
\* the sentinel.
C21_EveryTextIsCapped ==
  (IsParseCall /\ response.kind = "returned") =>
    \A i \in 1..Len(response.provisions) :
      Len(response.provisions[i].text) <= SLICE_CAP

----------------------------------------------------------------------------
(* Claims on the order of the parsers *)

\* The parser named for the k-th statute of state s ran without failure on
\* its page and found nothing
NamedParserFoundNothingAt(s, k) ==
  /\ call.runs[s][k].kind = "page"
  /\ call.runs[s][k].parserType = "legislature"
  /\ ~call.runs[s][k].fails
  /\ legislatureProvisions(call.runs[s][k].text, call.runs[s][k].structured) = <<>>

\* C22: when the structured parser returns the empty list for a page, the
\* regex fallback runs on the page and its provisions are the result.
C22_FallbackRunsAfterEmpty ==
  IsFetchCall =>
    \A s \in 1..Len(STATE_TARGETS) :
      \A k \in 1..Len(STATE_TARGETS[s].statutes) :
        NamedParserFoundNothingAt(s, k) =>
          Len(ProvisionsAt(s, k)) = Len(simpleProvisions(call.runs[s][k].text))


----------------------------------------------------------------------------
(* Claims on the cache of the fetch scripts *)

IsFetchRun ==
  call.tool \in {"fetch-uscode", "fetch-state-laws", "fetch-states-lawserver"}

Downloads == SelectSeq(issued, LAMBDA e : e.kind # "delay")

Requested(e) == e.kind = "request"

\* The run found every cache file as a run that succeeded throughout has
\* just left it
FollowsSuccessfulRun ==
  \A key \in DOMAIN call.files :
    call.files[key].kind = "file" /\ call.files[key].age = 0

\* C23 as stated: a URL is requested over the network only if its cache
\* entry is absent or older than thirty days
C23_RequestOnlyWhenOlderThanTtl ==
  IsFetchRun =>
    \A n \in 1..Len(Downloads) :
      Requested(Downloads[n]) =>
        \/ Downloads[n].entry.kind = "absent"
        \/ Downloads[n].entry.age > CACHE_TTL

\* C23: a URL is requested over the network exactly if its cache entry is
\* absent or at least thirty days old; a younger entry is returned as it is
\* without a request, so a run that follows a run that succeeded throughout
\* requests nothing
C23_RequestOnlyWhenNotYounger ==
  IsFetchRun =>
    /\ \A n \in 1..Len(Downloads) :
         LET e == Downloads[n]
         IN /\ Requested(e) <=> (e.entry.kind = "absent" \/ e.entry.age >= CACHE_TTL)
            /\ ~Requested(e) => e.got = e.entry.content
    /\ FollowsSuccessfulRun => \A n \in 1..Len(Downloads) : ~Requested(Downloads[n])

C23_Witness ==
  /\ call.tool = "fetch-state-laws"
  /\ FollowsSuccessfulRun
  /\ Len(Downloads) = Len(StateSteps)

\* C24: when the request for a URL with an expired cache file fails, the
\* fetcher goes on with the stale content of that file; it has nothing to go
\* on with only when there is no cache file
C24_StaleCacheOnFailure ==
  IsFetchRun =>
    \A n \in 1..Len(Downloads) :
      Downloads[n].got = Null => Downloads[n].entry.kind = "absent"

\* C25: between any two consecutive requests of a run a delay elapses
C25_DelayBetweenRequests ==
  IsFetchRun =>
    \A i, j \in 1..Len(issued) :
      (/\ i < j
       /\ Requested(issued[i])
       /\ Requested(issued[j]))
        => \E d \in (i + 1)..(j - 1) : issued[d].kind = "delay"

----------------------------------------------------------------------------
(* Claims on the order of a document's provisions *)

\* The provisions of a document in the order they were inserted, which is
\* the order they were extracted in
ProvisionsOfDocument(d, id) ==
  SelectSeq(d.legal_provisions, LAMBDA prov : prov.document_id = id)

\* C27: within every document of the store the order_index values of its
\* provisions are pairwise distinct and increase strictly in extraction
\* order, also when sections in between were skipped
C27_OrderIndexIncreases ==
  \A id \in DocIds(db) :
    LET provisions == ProvisionsOfDocument(db, id)
    IN \A i, j \in 1..Len(provisions) :
         i < j => provisions[i].order_index < provisions[j].order_index

\* A federal document whose second section was skipped and whose first and
\* third were extracted
C27_Witness ==
  \E id \in DocIds(db) :
    LET provisions == ProvisionsOfDocument(db, id)
    IN /\ db.legal_documents[id].jurisdiction = "US-FED"
       /\ Len(provisions) = 2
       /\ provisions[1].section_number = <<"§", " ", "1">>
       /\ provisions[2].section_number = <<"§", " ", "3">>

----------------------------------------------------------------------------
(* Claims on the ingest scripts *)

\* C26: the committed store changes only when a whole batch commits: a step
\* of an ingest that has not handled every row of its batch, and a step in
\* which the ingest fails, leave the store as it was before the batch, so no
\* reader finds a document with part of its provisions
C26_BatchIsAllOrNothing ==
  [][db' # db => (/\ IsIngest
                  /\ call.done = IngestRows
                  /\ db' = call.working
                  /\ response'.kind = "ok")]_vars

\* An ingest failed after it had inserted a document and a provision, and
\* the store holds nothing
C26_Witness ==
  /\ response.kind = "error"
  /\ response.tool = "ingest:federal"
  /\ response.done > Len(FEDERAL_TARGETS)
  /\ db.legal_documents = <<>>
  /\ db.legal_provisions = <<>>

\* C28: the store holds one document for each jurisdiction and identifier,
\* and each provision of a document once, also after a seed was ingested a
\* second time
C28_ReingestOverwrites ==
  /\ \A i, j \in DocIds(db) :
       (/\ db.legal_documents[i].jurisdiction = db.legal_documents[j].jurisdiction
        /\ db.legal_documents[i].identifier = db.legal_documents[j].identifier)
         => i = j
  /\ \A p, q \in ProvIds(db) :
       (/\ db.legal_provisions[p].document_id = db.legal_provisions[q].document_id
        /\ db.legal_provisions[p].section_number = db.legal_provisions[q].section_number)
         => p = q

\* C30: every classified requirement of the store is linked to a document of
\* the requirement's own jurisdiction
C30_RequirementLinksOwnJurisdiction ==
  \A r \in ReqIds(db) :
    LET row == db.state_requirements[r]
    IN /\ row.document_id \in DocIds(db)
       /\ db.legal_documents[row.document_id].jurisdiction = row.jurisdiction

----------------------------------------------------------------------------
(* Claims on the HTTP server *)

\* C29: every session id of the sessions map refers to a transport that has
\* not been closed
C29_SessionsAreOpen ==
  call.tool = "http" =>
    \A s \in db.sessions : ~db.transports[s.transport].closed

========================================================================
